---- MODULE Spec2Model ----
(***************************************************************************)
(* Offline-first replication engine of loginapp: the local Realm store,    *)
(* the remote Supabase tables, SyncEngine.pushChanges / pullChanges /      *)
(* pruneData and the UI handlers that mutate the store.                    *)
(*                                                                         *)
(* One step of the model is one JavaScript task: a handler, or an async    *)
(* function from one await to the next.  A remote call is modelled at the  *)
(* step that resumes after it: the server applies the payload that was     *)
(* built before the await, and the code after the await runs.              *)
(*                                                                         *)
(* Dates are integers (milliseconds in the push/pull specifications, days  *)
(* in the prune specification).  An optional field (deletedAt, localUri,   *)
(* remoteUrl) is <<>> for null/undefined and <<v>> for a value.            *)
(***************************************************************************)
EXTENDS Integers, Sequences, FiniteSets, Bags, TLC

VARIABLES
    now,            \* Date.now() / new Date()
    realmClosed,    \* realm.isClosed
    lastPushTime,   \* SyncEngine.private.lastPushTime
    isSyncing,      \* SyncEngine.private.isSyncing
    posts,          \* realm.objects('Post'):    id -> record
    likes,          \* realm.objects('Like'):    id -> record
    comments,       \* realm.objects('Comment'): id -> record
    settings,       \* realm.objects('SystemSettings'): sequence of lastSyncTime
    files,          \* ids of the posts whose local media file exists on disk
    rPosts,         \* remote table posts:    id -> row
    rLikes,         \* remote table likes:    id -> row
    rComments,      \* remote table comments: id -> row
    push,           \* pushChanges invocations suspended at an await: slot -> cycle
    pull,           \* pullChanges invocations suspended at an await: a bag of calls
    myLike,         \* PostItem's myLike as of the last render: post id -> like id or 0
    userEmail,      \* useAuthStore().user?.email: <<>> or <<email>>
    task,           \* BACKGROUND_SYNC_TASK invocation: position, open realms, results
    retry,          \* RetryEngine.executeWithBackoff invocation: position, attempt, sleeps
    minted,         \* number of ObjectIds minted locally per object type
    pendingPost,    \* handleAddPost invocations suspended at NetInfo.fetch()
    lastCall,       \* history: outcome of the most recent pushChanges call
    events,         \* history: number of external events so far
    mark            \* history: scratch record of the scenario specifications

vars == <<now, realmClosed, lastPushTime, isSyncing, posts, likes, comments,
          settings, files, rPosts, rLikes, rComments, push, pull, myLike,
          userEmail, task, retry, minted, pendingPost, lastCall, events, mark>>

store  == <<posts, likes, comments, settings>>
remote == <<rPosts, rLikes, rComments>>

----------------------------------------------------------------------------
(* Bounds of the model and constants of the program                        *)

MaxEvents == 3    \* external events (taps, connectivity, clock ticks, ...) per behaviour
MaxCycles == 2    \* slots for concurrently suspended pushChanges calls

PUSH_COOLDOWN == 3000
TICK == PUSH_COOLDOWN \div 2
Epoch == PUSH_COOLDOWN      \* the first instant; Date.now() - 0 >= PUSH_COOLDOWN

None == <<>>
Some(v) == <<v>>
IsNull(o) == o = <<>>
Val(o) == o[1]

Min(S) == CHOOSE x \in S : \A y \in S : x <= y
Max(S) == CHOOSE x \in S : \A y \in S : x >= y

EmptyTable == [i \in {} |-> 0]

----------------------------------------------------------------------------
(* Remote store                                                            *)

\* Column defaults of a freshly inserted remote row.
RowDefaults == [deleted_at |-> None]

\* supabase.from(table).upsert(rows): insert, or on a primary-key conflict
\* update the columns the payload carries; updated_at is set by the server.
Upsert(table, payload, t) ==
    [i \in DOMAIN table \cup DOMAIN payload |->
        IF i \in DOMAIN payload
        THEN [updated_at |-> t] @@ payload[i]
                @@ (IF i \in DOMAIN table THEN table[i] ELSE RowDefaults)
        ELSE table[i]]

----------------------------------------------------------------------------
(* Push: payloads                                                          *)

\* postsPayload of one post, with the media URL known at that point.
PostPayload(p, publicUrl) ==
    LET base == [text       |-> p.text,
                 image_url  |-> IF p.mediaType = "image" THEN publicUrl ELSE None,
                 video_url  |-> IF p.mediaType = "video" THEN publicUrl ELSE None,
                 media_type |-> p.mediaType,
                 timestamp  |-> p.timestamp,
                 user_email |-> p.userEmail]
    IN  IF IsNull(p.deletedAt) THEN base
        ELSE base @@ [deleted_at |-> p.deletedAt]

\* deletePayload / insertPayload of a likes batch.
LikeDeleteRow(l) == [post_id |-> l.postId, user_email |-> l.userEmail,
                     deleted_at |-> l.deletedAt]
LikeInsertRow(l) == [post_id |-> l.postId, user_email |-> l.userEmail]

\* deletePayload / insertPayload of a comments batch.
CommentDeleteRow(c) == [post_id |-> c.postId, user_email |-> c.userEmail,
                        text |-> c.text, created_at |-> c.timestamp,
                        deleted_at |-> c.deletedAt]
CommentInsertRow(c) == [post_id |-> c.postId, user_email |-> c.userEmail,
                        text |-> c.text, created_at |-> c.timestamp]

----------------------------------------------------------------------------
(* Push: one cycle of pushChanges, from await to await                     *)

\* A slot holding no suspended call; exit tells how its last cycle ended.
IdleCycle == [pc |-> "idle", todo |-> {}, cur |-> 0, payload |-> EmptyTable,
              batch |-> {}, insBatch |-> {}, synced |-> {}, exit |-> "none"]

\* The cycle ran to the end of the try block.
DoneCycle == [IdleCycle EXCEPT !.exit = "done"]

\* The cycle left the try block through an exception.
ThrownCycle == [IdleCycle EXCEPT !.exit = "thrown"]

\* Variant whose query leaves the tombstoned records out.
UnsyncedActiveOnly(T) == {i \in DOMAIN T : ~T[i].isSynced /\ IsNull(T[i].deletedAt)}

\* realm.objects(T).filtered('isSynced == false')
Unsynced(T) == {i \in DOMAIN T : ~T[i].isSynced}

\* Variant that uploads whenever the post has a local file.
NeedsUploadAgain(p) == ~IsNull(p.localUri)

\* post.localUri && !post.remoteUrl
NeedsUpload(p) == ~IsNull(p.localUri) /\ IsNull(p.remoteUrl)

\* commentsToInsert batch: build insertPayload and await the upsert.  A batch
\* member that was hard-deleted meanwhile throws: the cycle ends in finally.
CommentsInsertStep(C, ins) ==
    IF ins # {} /\ ins \subseteq DOMAIN C
    THEN [IdleCycle EXCEPT !.pc = "commentsIns", !.batch = ins,
                           !.payload = [i \in ins |-> CommentInsertRow(C[i])]]
    ELSE IF ins # {} THEN ThrownCycle
    ELSE DoneCycle

\* Variant without the parent filter: every unsynced comment is pushed.
EligibleCommentsUnfiltered(C, synced) == Unsynced(C)

\* C. SYNC COMMENTS: filter by the syncedPostIds computed in the likes phase.
EligibleComments(C, synced) == {i \in Unsynced(C) : C[i].postId \in synced}

CommentsStep(C, synced) ==
    LET eligible == EligibleComments(C, synced)
        del == {i \in eligible : ~IsNull(C[i].deletedAt)}
        ins == {i \in eligible : IsNull(C[i].deletedAt)}
    IN  IF del # {}
        THEN [IdleCycle EXCEPT !.pc = "commentsDel", !.batch = del, !.insBatch = ins,
                               !.payload = [i \in del |-> CommentDeleteRow(C[i])]]
        ELSE CommentsInsertStep(C, ins)

\* likesToInsert batch: build insertPayload and await the upsert.
LikesInsertStep(L, C, ins, synced) ==
    IF ins # {} /\ ~(ins \subseteq DOMAIN L) THEN ThrownCycle
    ELSE IF ins # {}
    THEN [IdleCycle EXCEPT !.pc = "likesIns", !.batch = ins, !.synced = synced,
                           !.payload = [i \in ins |-> LikeInsertRow(L[i])]]
    ELSE CommentsStep(C, synced)

\* Variant without the parent filter: every unsynced like is pushed.
EligibleLikesUnfiltered(L, synced) == Unsynced(L)

\* B. SYNC LIKES: only likes whose post is in syncedPostIds.
EligibleLikes(L, synced) == {i \in Unsynced(L) : L[i].postId \in synced}

LikesStep(P, L, C) ==
    LET synced == {i \in DOMAIN P : P[i].isSynced}
        eligible == EligibleLikes(L, synced)
        del == {i \in eligible : ~IsNull(L[i].deletedAt)}
        ins == {i \in eligible : IsNull(L[i].deletedAt)}
    IN  IF del # {}
        THEN [IdleCycle EXCEPT !.pc = "likesDel", !.batch = del, !.insBatch = ins,
                               !.synced = synced,
                               !.payload = [i \in del |-> LikeDeleteRow(L[i])]]
        ELSE LikesInsertStep(L, C, ins, synced)

\* A. SYNC POSTS: the next post of the loop, up to its first await.  A post
\* that was hard-deleted meanwhile throws inside the per-post try: skipped.
RECURSIVE PostsStep(_, _, _, _)
PostsStep(P, L, C, todo) ==
    IF todo = {} THEN LikesStep(P, L, C)
    ELSE LET p == Min(todo) IN
         IF p \notin DOMAIN P THEN PostsStep(P, L, C, todo \ {p})
         ELSE IF NeedsUpload(P[p])
         THEN [IdleCycle EXCEPT !.pc = "media", !.cur = p, !.todo = todo \ {p}]
         ELSE [IdleCycle EXCEPT !.pc = "postUpsert", !.cur = p, !.todo = todo \ {p},
                                !.payload = (p :> PostPayload(P[p], P[p].remoteUrl))]

\* Variant that leaves the flags as they are after a successful upsert.
MarkSyncedNever(T, ids) == T

\* forEach(x => { x.isSynced = true }) inside one realm.write
MarkSynced(T, ids) == [i \in DOMAIN T |-> IF i \in ids THEN [T[i] EXCEPT !.isSynced = TRUE] ELSE T[i]]

\* Variant without the rate limit.
PushGuardNoCooldown(closed, syncing, elapsed) ==
    IF closed THEN "closed"
    ELSE IF syncing THEN "busy"
    ELSE "started"

\* Variant without the single-flight check.
PushGuardNoSingleFlight(closed, syncing, elapsed) ==
    IF closed THEN "closed"
    ELSE IF elapsed < PUSH_COOLDOWN THEN "cooldown"
    ELSE "started"

\* The guards at the head of pushChanges.
PushGuard(closed, syncing, elapsed) ==
    IF closed THEN "closed"
    ELSE IF syncing THEN "busy"
    ELSE IF elapsed < PUSH_COOLDOWN THEN "cooldown"
    ELSE "started"

FreeSlots == {s \in DOMAIN push : push[s].pc = "idle"}

\* finally { isSyncing = false } when the cycle has no await left.
Release(cyc) == IF cyc.pc = "idle" THEN FALSE ELSE isSyncing

\* SyncEngine.pushChanges(realm), called on the store (P, L, C) the caller
\* leaves behind, up to the first await of the cycle (or to its end).
PushCall(P, L, C) ==
    LET outcome == PushGuard(realmClosed, isSyncing, now - lastPushTime)
        cyc == PostsStep(P, L, C, Unsynced(P))
    IN  /\ posts' = P /\ likes' = L /\ comments' = C
        /\ lastCall' = outcome
        /\ IF outcome = "started"
           THEN /\ FreeSlots # {}
                /\ lastPushTime' = now
                /\ isSyncing' = (cyc.pc # "idle")
                /\ push' = [push EXCEPT ![Min(FreeSlots)] = cyc]
           ELSE UNCHANGED <<lastPushTime, isSyncing, push>>

\* The cycle in slot s moves to cyc: its next await, or its end (finally).
Resume(s, cyc) ==
    /\ push' = [push EXCEPT ![s] = cyc]
    /\ isSyncing' = Release(cyc)

\* Variant with a plain try/catch: an exception leaves isSyncing as it is.
ThrownNoFinally(s) ==
    /\ push' = [push EXCEPT ![s] = ThrownCycle]
    /\ UNCHANGED isSyncing

\* Any store access on a closed realm throws: the cycle unwinds to finally.
Thrown(s) == Resume(s, ThrownCycle)

\* Variant without the file existence check.
MediaReturnNoFileCheck(s, ok) ==
    LET cyc == push[s]
        p == cyc.cur
        uploaded == [posts EXCEPT ![p].remoteUrl = Some(p)]
    IN  /\ cyc.pc = "media"
        /\ IF realmClosed THEN Thrown(s) /\ UNCHANGED posts
           ELSE IF p \notin DOMAIN posts \/ ~ok
           THEN /\ Resume(s, PostsStep(posts, likes, comments, cyc.todo))
                /\ UNCHANGED posts
           ELSE /\ posts' = uploaded
                /\ Resume(s, [cyc EXCEPT !.pc = "postUpsert",
                                !.payload = (p :> PostPayload(uploaded[p], Some(p)))])
        /\ UNCHANGED <<now, realmClosed, lastPushTime, likes, comments, settings, files,
                       rPosts, rLikes, rComments, pull, myLike, userEmail, task, retry, minted,
                       pendingPost, lastCall, events, mark>>

\* Variant in which a failed upload falls through to the metadata upsert.
MediaReturnFallsThrough(s, ok) ==
    LET cyc == push[s]
        p == cyc.cur
        uploaded == [posts EXCEPT ![p].remoteUrl = Some(p)]
    IN  /\ cyc.pc = "media"
        /\ IF realmClosed THEN Thrown(s) /\ UNCHANGED posts
           ELSE IF p \notin DOMAIN posts
           THEN /\ Resume(s, PostsStep(posts, likes, comments, cyc.todo))
                /\ UNCHANGED posts
           ELSE IF p \notin files \/ ~ok
           THEN /\ Resume(s, [cyc EXCEPT !.pc = "postUpsert",
                                !.payload = (p :> PostPayload(posts[p], None))])
                /\ UNCHANGED posts
           ELSE /\ posts' = uploaded
                /\ Resume(s, [cyc EXCEPT !.pc = "postUpsert",
                                !.payload = (p :> PostPayload(uploaded[p], Some(p)))])
        /\ UNCHANGED <<now, realmClosed, lastPushTime, likes, comments, settings, files,
                       rPosts, rLikes, rComments, pull, myLike, userEmail, task, retry, minted,
                       pendingPost, lastCall, events, mark>>

\* The media upload of post push[s].cur returns (file check, read, upload).
MediaReturn(s, ok) ==
    LET cyc == push[s]
        p == cyc.cur
        uploaded == [posts EXCEPT ![p].remoteUrl = Some(p)]
    IN  /\ cyc.pc = "media"
        /\ IF realmClosed THEN Thrown(s) /\ UNCHANGED posts
           ELSE IF p \notin DOMAIN posts \/ p \notin files \/ ~ok
           THEN \* file not found, upload error or exception: continue
                /\ Resume(s, PostsStep(posts, likes, comments, cyc.todo))
                /\ UNCHANGED posts
           ELSE /\ posts' = uploaded
                /\ Resume(s, [cyc EXCEPT !.pc = "postUpsert",
                                !.payload = (p :> PostPayload(uploaded[p], Some(p)))])
        /\ UNCHANGED <<now, realmClosed, lastPushTime, likes, comments, settings, files,
                       rPosts, rLikes, rComments, pull, myLike, userEmail, task, retry, minted,
                       pendingPost, lastCall, events, mark>>

\* RetryEngine.executeWithBackoff of the posts upsert returns true (ok) or null.
PostUpsertReturn(s, ok) ==
    LET cyc == push[s]
        p == cyc.cur
        flipped == IF ok /\ p \in DOMAIN posts THEN MarkSynced(posts, {p}) ELSE posts
    IN  /\ cyc.pc = "postUpsert"
        /\ rPosts' = IF ok THEN Upsert(rPosts, cyc.payload, now) ELSE rPosts
        /\ IF realmClosed THEN Thrown(s) /\ UNCHANGED posts
           ELSE /\ posts' = flipped
                /\ Resume(s, PostsStep(flipped, likes, comments, cyc.todo))
        /\ UNCHANGED <<now, realmClosed, lastPushTime, likes, comments, settings, files,
                       rLikes, rComments, pull, myLike, userEmail, task, retry, minted,
                       pendingPost, lastCall, events, mark>>

\* The upsert of deletePayload (likes) returns.
LikesDeleteReturn(s, ok) ==
    LET cyc == push[s]
        flipped == IF ok THEN MarkSynced(likes, cyc.batch) ELSE likes
    IN  /\ cyc.pc = "likesDel"
        /\ rLikes' = IF ok THEN Upsert(rLikes, cyc.payload, now) ELSE rLikes
        /\ IF realmClosed \/ (ok /\ ~(cyc.batch \subseteq DOMAIN likes))
           THEN Thrown(s) /\ UNCHANGED likes
           ELSE /\ likes' = flipped
                /\ Resume(s, LikesInsertStep(flipped, comments, cyc.insBatch, cyc.synced))
        /\ UNCHANGED <<now, realmClosed, lastPushTime, posts, comments, settings, files,
                       rPosts, rComments, pull, myLike, userEmail, task, retry, minted,
                       pendingPost, lastCall, events, mark>>

\* Variant that goes back to the posts loop after the likes batch while
\* posts are still unsynced.
LikesInsertReturnRetriesPosts(s, ok) ==
    LET cyc == push[s]
        flipped == IF ok THEN MarkSynced(likes, cyc.batch) ELSE likes
    IN  /\ cyc.pc = "likesIns"
        /\ rLikes' = IF ok THEN Upsert(rLikes, cyc.payload, now) ELSE rLikes
        /\ IF realmClosed \/ (ok /\ ~(cyc.batch \subseteq DOMAIN likes))
           THEN Thrown(s) /\ UNCHANGED likes
           ELSE /\ likes' = flipped
                /\ Resume(s, IF Unsynced(posts) # {}
                             THEN PostsStep(posts, flipped, comments, Unsynced(posts))
                             ELSE CommentsStep(comments, cyc.synced))
        /\ UNCHANGED <<now, realmClosed, lastPushTime, posts, comments, settings, files,
                       rPosts, rComments, pull, myLike, userEmail, task, retry, minted,
                       pendingPost, lastCall, events, mark>>

\* The upsert of insertPayload (likes) returns.
LikesInsertReturn(s, ok) ==
    LET cyc == push[s]
        flipped == IF ok THEN MarkSynced(likes, cyc.batch) ELSE likes
    IN  /\ cyc.pc = "likesIns"
        /\ rLikes' = IF ok THEN Upsert(rLikes, cyc.payload, now) ELSE rLikes
        /\ IF realmClosed \/ (ok /\ ~(cyc.batch \subseteq DOMAIN likes))
           THEN Thrown(s) /\ UNCHANGED likes
           ELSE /\ likes' = flipped
                /\ Resume(s, CommentsStep(comments, cyc.synced))
        /\ UNCHANGED <<now, realmClosed, lastPushTime, posts, comments, settings, files,
                       rPosts, rComments, pull, myLike, userEmail, task, retry, minted,
                       pendingPost, lastCall, events, mark>>

\* The upsert of deletePayload (comments) returns.
CommentsDeleteReturn(s, ok) ==
    LET cyc == push[s]
        flipped == IF ok THEN MarkSynced(comments, cyc.batch) ELSE comments
    IN  /\ cyc.pc = "commentsDel"
        /\ rComments' = IF ok THEN Upsert(rComments, cyc.payload, now) ELSE rComments
        /\ IF realmClosed \/ (ok /\ ~(cyc.batch \subseteq DOMAIN comments))
           THEN Thrown(s) /\ UNCHANGED comments
           ELSE /\ comments' = flipped
                /\ Resume(s, CommentsInsertStep(flipped, cyc.insBatch))
        /\ UNCHANGED <<now, realmClosed, lastPushTime, posts, likes, settings, files,
                       rPosts, rLikes, pull, myLike, userEmail, task, retry, minted,
                       pendingPost, lastCall, events, mark>>

\* The upsert of insertPayload (comments) returns: the cycle ends.
CommentsInsertReturn(s, ok) ==
    LET cyc == push[s]
        flipped == IF ok THEN MarkSynced(comments, cyc.batch) ELSE comments
    IN  /\ cyc.pc = "commentsIns"
        /\ rComments' = IF ok THEN Upsert(rComments, cyc.payload, now) ELSE rComments
        /\ IF realmClosed \/ (ok /\ ~(cyc.batch \subseteq DOMAIN comments))
           THEN Thrown(s) /\ UNCHANGED comments
           ELSE /\ comments' = flipped
                /\ Resume(s, DoneCycle)
        /\ UNCHANGED <<now, realmClosed, lastPushTime, posts, likes, settings, files,
                       rPosts, rLikes, pull, myLike, userEmail, task, retry, minted,
                       pendingPost, lastCall, events, mark>>

----------------------------------------------------------------------------
(* UI handlers (PostItem, HomeScreen) and the NetInfo listener             *)

\* One more external event: a tap, a connectivity change, a clock tick, ...
Event == events < MaxEvents /\ events' = events + 1

\* user?.email || 'anon'
EmailOrAnon == IF IsNull(userEmail) THEN "anon" ELSE Val(userEmail)

\* likes.find(l => l.userEmail === user?.email) over the live query
\* 'postId == $0 AND deletedAt == null'; 0 stands for undefined.
FindMyLike(p) ==
    LET mine == {i \in DOMAIN likes : /\ likes[i].postId = p
                                      /\ IsNull(likes[i].deletedAt)
                                      /\ ~IsNull(userEmail)
                                      /\ likes[i].userEmail = Val(userEmail)}
    IN  IF mine = {} THEN 0 ELSE Min(mine)

\* myLike as captured by the closure of the last render of PostItem p.
Rendered(p) == IF p \in DOMAIN myLike THEN myLike[p] ELSE 0

\* filtered('postId == $0 AND userEmail == $1 AND deletedAt != null', p, user?.email)[0]
FindDeletedLike(p) ==
    LET dead == {i \in DOMAIN likes : /\ likes[i].postId = p
                                      /\ ~IsNull(likes[i].deletedAt)
                                      /\ ~IsNull(userEmail)
                                      /\ likes[i].userEmail = Val(userEmail)}
    IN  IF dead = {} THEN 0 ELSE Min(dead)

\* Variant whose resurrect branch leaves the isSynced flag as it was.
ToggleWriteKeepsFlag(p, m) ==
    IF m # 0
    THEN [likes EXCEPT ![m].deletedAt = Some(now), ![m].isSynced = FALSE]
    ELSE IF FindDeletedLike(p) # 0
    THEN [likes EXCEPT ![FindDeletedLike(p)].deletedAt = None]
    ELSE (minted.like + 1 :> [postId |-> p, userEmail |-> EmailOrAnon,
                              isSynced |-> FALSE, deletedAt |-> None]) @@ likes

\* The realm.write of toggleLike: the likes table it leaves behind.
ToggleWrite(p, m) ==
    IF m # 0
    THEN [likes EXCEPT ![m].deletedAt = Some(now), ![m].isSynced = FALSE]
    ELSE IF FindDeletedLike(p) # 0
    THEN [likes EXCEPT ![FindDeletedLike(p)].deletedAt = None,
                       ![FindDeletedLike(p)].isSynced = FALSE]
    ELSE (minted.like + 1 :> [postId |-> p, userEmail |-> EmailOrAnon,
                              isSynced |-> FALSE, deletedAt |-> None]) @@ likes

\* A re-render of PostItem p after a store commit refreshes myLike.
Render(p) ==
    /\ p \in DOMAIN posts
    /\ Rendered(p) # FindMyLike(p)
    /\ myLike' = (p :> FindMyLike(p)) @@ myLike
    /\ UNCHANGED <<now, realmClosed, lastPushTime, isSyncing, posts, likes, comments,
                   settings, files, rPosts, rLikes, rComments, push, pull,
                   userEmail, task, retry, minted, pendingPost, lastCall, events, mark>>

\* PostItem.toggleLike: realm.write, then SyncEngine.pushChanges(realm).
ToggleLike(p) ==
    LET m == Rendered(p)
        creates == m = 0 /\ FindDeletedLike(p) = 0
    IN  /\ Event
        /\ ~realmClosed
        /\ p \in DOMAIN posts
        /\ m # 0 => m \in DOMAIN likes
        /\ minted' = IF creates THEN [minted EXCEPT !.like = @ + 1] ELSE minted
        /\ PushCall(posts, ToggleWrite(p, m), comments)
        /\ UNCHANGED <<now, realmClosed, settings, files, rPosts, rLikes, rComments,
                       pull, myLike, userEmail, task, retry, pendingPost, mark>>

\* PostItem.addComment: realm.write, then SyncEngine.pushChanges(realm).
AddComment(p) ==
    LET c == [postId |-> p, userEmail |-> EmailOrAnon, text |-> "c",
              timestamp |-> now, isSynced |-> FALSE, deletedAt |-> None]
    IN  /\ Event
        /\ ~realmClosed
        /\ p \in DOMAIN posts
        /\ minted' = [minted EXCEPT !.comment = @ + 1]
        /\ PushCall(posts, likes, (minted.comment + 1 :> c) @@ comments)
        /\ UNCHANGED <<now, realmClosed, settings, files, rPosts, rLikes, rComments,
                       pull, myLike, userEmail, task, retry, pendingPost, mark>>

\* HomeScreen.handleAddPost up to `await NetInfo.fetch()`: copy the media
\* file, realm.write of the new post.  media is "none", "image" or "video".
AddPost(media) ==
    LET id == minted.post + 1
        p == [text |-> "t", timestamp |-> now,
              mediaType |-> IF media = "video" THEN "video" ELSE "image",
              localUri |-> IF media = "none" THEN None ELSE Some(id),
              remoteUrl |-> None, userEmail |-> "anon",
              isSynced |-> FALSE, deletedAt |-> None]
    IN  /\ Event
        /\ ~realmClosed
        /\ minted' = [minted EXCEPT !.post = id]
        /\ posts' = (id :> p) @@ posts
        /\ files' = IF media = "none" THEN files ELSE files \cup {id}
        /\ pendingPost' = pendingPost + 1
        /\ UNCHANGED <<now, realmClosed, lastPushTime, isSyncing, likes, comments,
                       settings, rPosts, rLikes, rComments, push, pull, myLike,
                       userEmail, task, retry, lastCall, mark>>

\* handleAddPost after NetInfo.fetch(): pushChanges if connected.
AddPostResume(connected) ==
    /\ pendingPost > 0
    /\ pendingPost' = pendingPost - 1
    /\ IF connected
       THEN PushCall(posts, likes, comments)
       ELSE UNCHANGED <<posts, likes, comments, lastPushTime, isSyncing, push,
                        lastCall>>
    /\ UNCHANGED <<now, realmClosed, settings, files, rPosts, rLikes, rComments,
                   pull, myLike, userEmail, task, retry, minted, events, mark>>

\* NetInfo listener with state.isConnected: the pushChanges call.  (Its
\* pullChanges call touches posts and settings only; see PullCall.)
OnConnectivity ==
    /\ Event
    /\ ~realmClosed
    /\ PushCall(posts, likes, comments)
    /\ UNCHANGED <<now, realmClosed, settings, files, rPosts, rLikes, rComments,
                   pull, myLike, userEmail, task, retry, minted, pendingPost, mark>>

----------------------------------------------------------------------------
(* Environment                                                             *)

\* Wall-clock time passes.
Tick(d) ==
    /\ Event
    /\ now' = now + d
    /\ UNCHANGED <<realmClosed, lastPushTime, isSyncing, posts, likes, comments,
                   settings, files, rPosts, rLikes, rComments, push, pull, myLike,
                   userEmail, task, retry, minted, pendingPost, lastCall, mark>>

\* The RealmProvider unmounts: the realm is closed under a running cycle.
CloseRealm ==
    /\ Event
    /\ ~realmClosed
    /\ realmClosed' = TRUE
    /\ UNCHANGED <<now, lastPushTime, isSyncing, posts, likes, comments,
                   settings, files, rPosts, rLikes, rComments, push, pull, myLike,
                   userEmail, task, retry, minted, pendingPost, lastCall, mark>>

\* A media file disappears from the documents directory.
FileLost(p) ==
    /\ Event
    /\ p \in files
    /\ files' = files \ {p}
    /\ UNCHANGED <<now, realmClosed, lastPushTime, isSyncing, posts, likes, comments,
                   settings, rPosts, rLikes, rComments, push, pull, myLike,
                   userEmail, task, retry, minted, pendingPost, lastCall, mark>>

----------------------------------------------------------------------------
(* Retry: RetryEngine.executeWithBackoff, from await to await              *)

MaxRuns == 2      \* executeWithBackoff calls made one after the other
Jitter == 1       \* ms a timer may fire later than its delay

maxRetries == 3
baseDelay == 2000

\* No executeWithBackoff call has been made.
IdleRetry ==
    [pc |-> "idle", run |-> 0, attempt |-> 0, calls |-> 0, fails |-> 0,
     slept |-> <<>>, start |-> 0, result |-> None]

\* What an operation may resolve to.
OperationValues == {"a", "b"}

\* Variant that runs the loop once more.
LoopContinuesOnceMore(attempt) == attempt <= maxRetries + 1

\* for (...; attempt <= this.maxRetries; ...)
LoopContinues(attempt) == attempt <= maxRetries

\* if (attempt < this.maxRetries)
ShouldRetry(attempt) == attempt < maxRetries

\* Variant whose delay grows by baseDelay per attempt.
DelayLinear(attempt) == baseDelay * (attempt + 1)

\* this.baseDelay * Math.pow(2, attempt)
Delay(attempt) == baseDelay * 2^attempt

\* The head of the for loop with attempt = a: either await operation(), or
\* the loop is over and the function returns null.
LoopHead(r, a) ==
    IF LoopContinues(a)
    THEN [r EXCEPT !.pc = "calling", !.attempt = a, !.calls = @ + 1]
    ELSE [r EXCEPT !.pc = "returned", !.attempt = a, !.result = Some("null")]

\* RetryEngine.executeWithBackoff(operation, name) up to its first await.
ExecuteWithBackoff ==
    /\ retry.pc \in {"idle", "returned"}
    /\ retry.run < MaxRuns
    /\ retry' = LoopHead([IdleRetry EXCEPT !.run = retry.run + 1, !.start = now], 0)
    /\ UNCHANGED <<now, realmClosed, lastPushTime, isSyncing, posts, likes, comments,
                   settings, files, rPosts, rLikes, rComments, push, pull, myLike,
                   userEmail, task, minted, pendingPost, lastCall, events, mark>>

\* await operation() resolves with v: return result.
OperationResolves(v) ==
    /\ retry.pc = "calling"
    /\ retry' = [retry EXCEPT !.pc = "returned", !.result = Some(v)]
    /\ UNCHANGED <<now, realmClosed, lastPushTime, isSyncing, posts, likes, comments,
                   settings, files, rPosts, rLikes, rComments, push, pull, myLike,
                   userEmail, task, minted, pendingPost, lastCall, events, mark>>

\* await operation() rejects: the catch block, up to the setTimeout or, on
\* the last attempt, through the end of the loop to return null.
OperationRejects ==
    /\ retry.pc = "calling"
    /\ LET failed == [retry EXCEPT !.fails = @ + 1]
       IN  retry' = IF ShouldRetry(retry.attempt)
                    THEN [failed EXCEPT !.pc = "sleeping",
                                        !.slept = Append(@, Delay(retry.attempt))]
                    ELSE LoopHead(failed, retry.attempt + 1)
    /\ UNCHANGED <<now, realmClosed, lastPushTime, isSyncing, posts, likes, comments,
                   settings, files, rPosts, rLikes, rComments, push, pull, myLike,
                   userEmail, task, minted, pendingPost, lastCall, events, mark>>

\* The timer of setTimeout(resolve, delay) fires, late ms after the delay:
\* attempt++ and the loop head.
TimerFires(late) ==
    /\ retry.pc = "sleeping"
    /\ now' = now + retry.slept[Len(retry.slept)] + late
    /\ retry' = LoopHead(retry, retry.attempt + 1)
    /\ UNCHANGED <<realmClosed, lastPushTime, isSyncing, posts, likes, comments,
                   settings, files, rPosts, rLikes, rComments, push, pull, myLike,
                   userEmail, task, minted, pendingPost, lastCall, events, mark>>

----------------------------------------------------------------------------
(* Background task: BACKGROUND_SYNC_TASK, one invocation at a time         *)

\* No invocation is running, no realm of the task is open, nothing returned.
IdleTask == [pc |-> "idle", open |-> 0, results |-> <<>>]

\* The invocation returns r to BackgroundFetch.
TaskEnds(r) == [task EXCEPT !.pc = "idle", !.results = Append(@, r)]

\* The phase awaited after phase pc.
PhaseAfter(pc) == IF pc = "push" THEN "pull" ELSE "prune"

\* TaskManager runs the task: try { realm = await Realm.open(realmConfig)
TaskRun ==
    /\ Event
    /\ task.pc = "idle"
    /\ task' = [task EXCEPT !.pc = "open"]
    /\ UNCHANGED <<now, realmClosed, lastPushTime, isSyncing, posts, likes, comments,
                   settings, files, rPosts, rLikes, rComments, push, pull, myLike,
                   userEmail, retry, minted, pendingPost, lastCall, mark>>

\* Realm.open resolves and pushChanges is awaited, or it rejects: catch.
TaskOpened(ok) ==
    /\ task.pc = "open"
    /\ task' = IF ok THEN [task EXCEPT !.pc = "push", !.open = @ + 1]
               ELSE TaskEnds("Failed")
    /\ UNCHANGED <<now, realmClosed, lastPushTime, isSyncing, posts, likes, comments,
                   settings, files, rPosts, rLikes, rComments, push, pull, myLike,
                   userEmail, retry, minted, pendingPost, lastCall, events, mark>>

\* The awaited phase resolves: the next phase is awaited, and after
\* pruneData realm.close() and return NewData.  Or it rejects: catch,
\* return Failed.
TaskPhaseEnds(threw) ==
    /\ task.pc \in {"push", "pull", "prune"}
    /\ task' = IF threw THEN TaskEnds("Failed")
               ELSE IF task.pc = "prune"
               THEN [TaskEnds("NewData") EXCEPT !.open = @ - 1]
               ELSE [task EXCEPT !.pc = PhaseAfter(task.pc)]
    /\ UNCHANGED <<now, realmClosed, lastPushTime, isSyncing, posts, likes, comments,
                   settings, files, rPosts, rLikes, rComments, push, pull, myLike,
                   userEmail, retry, minted, pendingPost, lastCall, events, mark>>

----------------------------------------------------------------------------
(* Spec: the push side -- UI handlers, connectivity events and push cycles *)
(* interleaved, with a network that may fail.                              *)

\* Ids a post can have: the initial one and one per handleAddPost.
PostIds == 1..(1 + MaxEvents)
Slots == 1..MaxCycles

\* A post that was authored and pushed earlier, and its remote row.
SyncedPost == [text |-> "t", timestamp |-> 0, mediaType |-> "image",
               localUri |-> None, remoteUrl |-> None, userEmail |-> "anon",
               isSynced |-> TRUE, deletedAt |-> None]

NoPull == EmptyBag

Init ==
    /\ now = Epoch
    /\ realmClosed = FALSE
    /\ lastPushTime = 0
    /\ isSyncing = FALSE
    /\ posts = (1 :> SyncedPost)
    /\ likes = EmptyTable
    /\ comments = EmptyTable
    /\ settings = <<>>
    /\ files = {}
    /\ rPosts = Upsert(EmptyTable, (1 :> PostPayload(SyncedPost, None)), 0)
    /\ rLikes = EmptyTable
    /\ rComments = EmptyTable
    /\ push = [s \in Slots |-> IdleCycle]
    /\ pull = NoPull
    /\ myLike = EmptyTable
    /\ userEmail = Some("u")
    /\ task = IdleTask
    /\ retry = IdleRetry
    /\ minted = [post |-> 1, like |-> 0, comment |-> 0]
    /\ pendingPost = 0
    /\ lastCall = "none"
    /\ events = 0
    /\ mark = 0

\* The comments delete batch is left out: no handler in the sources sets
\* deletedAt on a comment, so no cycle of this specification builds one.
Next ==
    \/ \E p \in PostIds : ToggleLike(p)
    \/ \E p \in PostIds : Render(p)
    \/ \E p \in PostIds : AddComment(p)
    \/ \E media \in {"none", "image", "video"} : AddPost(media)
    \/ \E connected \in BOOLEAN : AddPostResume(connected)
    \/ OnConnectivity
    \/ \E s \in Slots, ok \in BOOLEAN : MediaReturn(s, ok)
    \/ \E s \in Slots, ok \in BOOLEAN : PostUpsertReturn(s, ok)
    \/ \E s \in Slots, ok \in BOOLEAN : LikesDeleteReturn(s, ok)
    \/ \E s \in Slots, ok \in BOOLEAN : LikesInsertReturn(s, ok)
    \/ \E s \in Slots, ok \in BOOLEAN : CommentsInsertReturn(s, ok)
    \/ \E d \in {TICK, PUSH_COOLDOWN} : Tick(d)
    \/ CloseRealm
    \/ \E p \in PostIds : FileLost(p)

Spec == Init /\ [][Next]_vars

----------------------------------------------------------------------------
(* Pull: pullChanges of both engine variants, from await to await          *)

MaxPulls == 2         \* concurrently suspended pullChanges calls
MaxPullEvents == 1    \* external events per behaviour of the pull specification
Excess == 1           \* remote posts beyond PULL_LIMIT in the initial backlog

PULL_LIMIT == 20
LEGACY_LIMIT == 100
RemoteBase == LEGACY_LIMIT   \* ids minted by other clients lie above it

\* A pullChanges call suspended at the select of phase pc, with the
\* watermark it read; rows is the server's answer once it is evaluated.
Call(pc, lastSync) == [pc |-> pc, lastSync |-> lastSync, fetched |-> FALSE,
                       rows |-> EmptyTable]

\* pull is the bag of the suspended calls.
Suspended == BagToSet(pull)
Started(c) == pull (+) SetToBag({c})
Finished(c) == pull (-) SetToBag({c})
Moved(c, d) == Finished(c) (+) SetToBag({d})

\* History: how the most recent pullChanges call ended (or what the latest
\* select of a legacy call gave), and whether another call had moved the
\* watermark between its read and its write.
PullEnded(exit, overtaken) == [exit |-> exit, overtaken |-> overtaken]

\* settings.lastSyncTime of the first SystemSettings object; new Date(0) if none.
LastSync == IF settings = <<>> THEN 0 ELSE settings[1]

\* Variant that creates a SystemSettings object without looking for one.
EnsureSettingsAlways(S) == Append(S, 0)

\* if (!settings) realm.write(() => realm.create('SystemSettings', {...})):
\* S is the sequence of the lastSyncTime of the SystemSettings objects.
EnsureSettings(S) == IF S = <<>> THEN <<0>> ELSE S

\* settings.lastSyncTime = t, settings being the first SystemSettings object.
SetLastSync(S, t) == [i \in DOMAIN S |-> IF i = 1 THEN t ELSE S[i]]

\* .gt('timestamp', w).order('timestamp', {ascending: false}).limit(n);
\* equal timestamps are ordered by id.
Newest(T, w, n) ==
    LET m == {i \in DOMAIN T : T[i].timestamp > w}
        Before(j, i) == \/ T[j].timestamp > T[i].timestamp
                        \/ T[j].timestamp = T[i].timestamp /\ j > i
    IN  {i \in m : Cardinality({j \in m : Before(j, i)}) < n}

\* .gt('updated_at', w).limit(n): any n of the matching rows.
AnyUpdatedSince(T, w, n) ==
    LET m == {i \in DOMAIN T : T[i].updated_at > w}
    IN  IF Cardinality(m) <= n THEN {m}
        ELSE {S \in SUBSET m : Cardinality(S) = n}

\* The row sets the server may answer the pending query of a call with.
Answers(call) ==
    IF call.pc = "pull" THEN {Newest(rPosts, call.lastSync, PULL_LIMIT)}
    ELSE IF call.pc = "lposts" THEN AnyUpdatedSince(rPosts, call.lastSync, LEGACY_LIMIT)
    ELSE IF call.pc = "llikes" THEN AnyUpdatedSince(rLikes, call.lastSync, LEGACY_LIMIT)
    ELSE AnyUpdatedSince(rComments, call.lastSync, LEGACY_LIMIT)

PulledTable(call) ==
    IF call.pc \in {"pull", "lposts"} THEN rPosts
    ELSE IF call.pc = "llikes" THEN rLikes
    ELSE rComments

\* The server evaluates the select of a suspended call.
ServerAnswer(c) ==
    /\ c \in Suspended
    /\ ~c.fetched
    /\ \E ids \in Answers(c) :
          pull' = Moved(c, [c EXCEPT !.fetched = TRUE,
                                     !.rows = [i \in ids |-> PulledTable(c)[i]]])
    /\ UNCHANGED <<now, realmClosed, lastPushTime, isSyncing, posts, likes, comments,
                   settings, files, rPosts, rLikes, rComments, push, myLike,
                   userEmail, task, retry, minted, pendingPost, lastCall, events, mark>>

\* p.video_url || p.image_url
UrlOf(r) == IF ~IsNull(r.video_url) THEN r.video_url ELSE r.image_url

\* realm.create('Post', {...}) of pullChanges
PulledPost(r) ==
    [text |-> r.text, timestamp |-> r.timestamp, mediaType |-> r.media_type,
     localUri |-> None, remoteUrl |-> UrlOf(r), userEmail |-> r.user_email,
     isSynced |-> TRUE, deletedAt |-> None]

\* Variant without the objectForPrimaryKey test: every row fetched replaces
\* the local object.
InsertOverwrites(P, rows) ==
    [i \in DOMAIN P \cup DOMAIN rows |->
        IF i \in DOMAIN rows THEN PulledPost(rows[i]) ELSE P[i]]

\* posts.forEach: insert the rows that have no local object.
InsertAbsent(P, rows) ==
    [i \in DOMAIN P \cup DOMAIN rows |-> IF i \in DOMAIN P THEN P[i] ELSE PulledPost(rows[i])]

\* Variant that moves the watermark to the newest row fetched.
WatermarkNewestRow(rows, t) == Max({rows[i].timestamp : i \in DOMAIN rows})

\* settings.lastSyncTime = new Date()
Watermark(rows, t) == t

\* SyncEngine.pullChanges(realm) up to its await.
PullCall ==
    /\ BagCardinality(pull) < MaxPulls
    /\ IF realmClosed THEN UNCHANGED <<settings, pull>>
       ELSE /\ settings' = EnsureSettings(settings)
            /\ pull' = Started(Call("pull", LastSync))
    /\ UNCHANGED <<now, realmClosed, lastPushTime, isSyncing, posts, likes, comments,
                   files, rPosts, rLikes, rComments, push, myLike,
                   userEmail, task, retry, minted, pendingPost, lastCall, events, mark>>

\* pullChanges after its await: the response arrives (ok) or the request
\* fails and data is null; insert the new posts, move the watermark.
PullReturn(c, ok) ==
    LET writes == ok /\ DOMAIN c.rows # {}
    IN  /\ c \in Suspended
        /\ c.pc = "pull"
        /\ c.fetched
        /\ IF writes /\ ~realmClosed
           THEN /\ posts' = InsertAbsent(posts, c.rows)
                /\ settings' = SetLastSync(settings, Watermark(c.rows, now))
                /\ mark' = PullEnded("committed", LastSync # c.lastSync)
           ELSE /\ mark' = PullEnded(IF writes THEN "thrown" ELSE "empty", FALSE)
                /\ UNCHANGED <<posts, settings>>
        /\ pull' = Finished(c)
        /\ UNCHANGED <<now, realmClosed, lastPushTime, isSyncing, likes, comments,
                       files, rPosts, rLikes, rComments, push, myLike,
                       userEmail, task, retry, minted, pendingPost, lastCall, events>>

\* Variant in which the remote row also wins a tie.
RemoteWinsOnTie(local, r) == r.updated_at >= local.timestamp

\* ConflictResolver.lastWriteWins(existingPost, remotePost) = remotePost
RemoteWins(local, r) == r.updated_at > local.timestamp

\* local[field] / remote[field]: undefined when the object has no such field.
Field(o, f) == IF f \in DOMAIN o THEN o[f] ELSE None

\* Variant that takes the remote row also when a last synced version is given.
FieldLevelMergeNoBase(local, r, lastSyncVersion) ==
    [text |-> Field(r, "text"), image_url |-> Field(r, "image_url")]

\* ConflictResolver.fieldLevelMerge(local, remote, lastSyncVersion): the text
\* and image_url of the object it returns.  lastSyncVersion is <<>> when the
\* caller passes none.
FieldLevelMerge(local, r, lastSyncVersion) ==
    IF IsNull(lastSyncVersion)
    THEN [text |-> Field(r, "text"), image_url |-> Field(r, "image_url")]
    ELSE LET prev == Val(lastSyncVersion)
             Merged(f) ==
                 LET localChanged == Field(local, f) # Field(prev, f)
                     remoteChanged == Field(r, f) # Field(prev, f)
                 IN  IF localChanged /\ remoteChanged
                     THEN (IF r.updated_at > local.timestamp
                           THEN Field(r, f) ELSE Field(local, f))
                     ELSE IF remoteChanged THEN Field(r, f)
                     ELSE Field(local, f)
         IN  [text |-> Merged("text"), image_url |-> Merged("image_url")]

\* The conflict branch of the legacy posts merge.  fieldLevelMerge is called
\* with two arguments.
LegacyMergePost(local, r) ==
    IF ~local.isSynced
    THEN LET merged == FieldLevelMerge([text |-> local.text,
                                        image_url |-> local.remoteUrl,
                                        timestamp |-> local.timestamp], r, None)
         IN  [local EXCEPT !.text = merged.text, !.remoteUrl = merged.image_url,
                           !.isSynced = TRUE]
    ELSE IF RemoteWins(local, r)
    THEN [local EXCEPT !.text = r.text, !.remoteUrl = r.image_url,
                       !.timestamp = r.timestamp]
    ELSE local

\* realm.create('Post', {...}) of the legacy pull; mediaType takes its default.
LegacyPulledPost(r) ==
    [text |-> r.text, timestamp |-> r.timestamp, mediaType |-> "image",
     localUri |-> None, remoteUrl |-> r.image_url, userEmail |-> r.user_email,
     isSynced |-> TRUE, deletedAt |-> None]

LegacyMergePosts(P, rows) ==
    [i \in DOMAIN P \cup DOMAIN rows |->
        IF i \notin DOMAIN rows THEN P[i]
        ELSE IF i \in DOMAIN P THEN LegacyMergePost(P[i], rows[i])
        ELSE LegacyPulledPost(rows[i])]

\* 2. PULL LIKES: insert-if-absent; deleted_at is not read.
LegacyMergeLikes(L, rows) ==
    [i \in DOMAIN L \cup DOMAIN rows |->
        IF i \in DOMAIN L THEN L[i]
        ELSE [postId |-> rows[i].post_id, userEmail |-> rows[i].user_email,
              isSynced |-> TRUE, deletedAt |-> None]]

\* The conflict branch of the legacy comments merge.
LegacyMergeComment(local, r) ==
    IF local.isSynced THEN local
    ELSE LET merged == FieldLevelMerge([text |-> local.text,
                                        timestamp |-> local.timestamp], r, None)
         IN  [local EXCEPT !.text = merged.text, !.isSynced = TRUE]

\* 3. PULL COMMENTS
LegacyMergeComments(C, rows) ==
    [i \in DOMAIN C \cup DOMAIN rows |->
        IF i \notin DOMAIN rows THEN C[i]
        ELSE IF i \in DOMAIN C THEN LegacyMergeComment(C[i], rows[i])
        ELSE [postId |-> rows[i].post_id, userEmail |-> rows[i].user_email,
              text |-> rows[i].text, timestamp |-> rows[i].created_at,
              isSynced |-> TRUE, deletedAt |-> None]]

\* Legacy pullChanges up to its first await (no closed-realm check: the
\* query on a closed realm throws).
LegacyPullCall ==
    /\ BagCardinality(pull) < MaxPulls
    /\ IF realmClosed THEN UNCHANGED <<settings, pull>>
       ELSE /\ settings' = EnsureSettings(settings)
            /\ pull' = Started(Call("lposts", LastSync))
    /\ UNCHANGED <<now, realmClosed, lastPushTime, isSyncing, posts, likes, comments,
                   files, rPosts, rLikes, rComments, push, myLike,
                   userEmail, task, retry, minted, pendingPost, lastCall, events, mark>>

\* A realm.write of the legacy pull on a closed realm throws: the call ends.
LegacyThrown(c) ==
    /\ pull' = Finished(c)
    /\ mark' = PullEnded("thrown", FALSE)

\* The legacy call moves on to its next select; the history keeps whether
\* the select before it gave data ("merged") or null ("nodata").
LegacyAwait(c, pc, ok) ==
    /\ pull' = Moved(c, Call(pc, c.lastSync))
    /\ mark' = PullEnded(IF ok THEN "merged" ELSE "nodata", FALSE)

\* The posts select returns: merge, then select the likes.
LegacyPostsReturn(c, ok) ==
    /\ c \in Suspended
    /\ c.pc = "lposts"
    /\ c.fetched
    /\ IF ok /\ realmClosed
       THEN LegacyThrown(c) /\ UNCHANGED posts
       ELSE /\ posts' = IF ~ok THEN posts ELSE LegacyMergePosts(posts, c.rows)
            /\ LegacyAwait(c, "llikes", ok)
    /\ UNCHANGED <<now, realmClosed, lastPushTime, isSyncing, likes, comments,
                   settings, files, rPosts, rLikes, rComments, push, myLike,
                   userEmail, task, retry, minted, pendingPost, lastCall, events>>

\* The likes select returns: merge, then select the comments.
LegacyLikesReturn(c, ok) ==
    /\ c \in Suspended
    /\ c.pc = "llikes"
    /\ c.fetched
    /\ IF ok /\ realmClosed
       THEN LegacyThrown(c) /\ UNCHANGED likes
       ELSE /\ likes' = IF ~ok THEN likes ELSE LegacyMergeLikes(likes, c.rows)
            /\ LegacyAwait(c, "lcomments", ok)
    /\ UNCHANGED <<now, realmClosed, lastPushTime, isSyncing, posts, comments,
                   settings, files, rPosts, rLikes, rComments, push, myLike,
                   userEmail, task, retry, minted, pendingPost, lastCall, events>>

\* The comments select returns: merge, then write the watermark.
LegacyCommentsReturn(c, ok) ==
    /\ c \in Suspended
    /\ c.pc = "lcomments"
    /\ c.fetched
    /\ IF realmClosed
       THEN LegacyThrown(c) /\ UNCHANGED <<comments, settings>>
       ELSE /\ comments' = IF ~ok THEN comments
                           ELSE LegacyMergeComments(comments, c.rows)
            /\ settings' = SetLastSync(settings, now)
            /\ pull' = Finished(c)
            /\ mark' = PullEnded("committed", LastSync # c.lastSync)
    /\ UNCHANGED <<now, realmClosed, lastPushTime, isSyncing, posts, likes,
                   files, rPosts, rLikes, rComments, push, myLike,
                   userEmail, task, retry, minted, pendingPost, lastCall, events>>

\* onMigration of the RealmProvider, run while the realm is being opened:
\* create SystemSettings if the store has none.
OnMigration ==
    /\ pull = NoPull
    /\ mark.exit = "none"
    /\ settings' = EnsureSettings(settings)
    /\ UNCHANGED <<now, realmClosed, lastPushTime, isSyncing, posts, likes, comments,
                   files, rPosts, rLikes, rComments, push, pull, myLike,
                   userEmail, task, retry, minted, pendingPost, lastCall, events, mark>>

\* Another client pushes a post it authored at time ts.
RemotePost(ts) ==
    LET id == Max(DOMAIN rPosts \cup {RemoteBase}) + 1
        row == [text |-> "r", image_url |-> None, video_url |-> None,
                media_type |-> "image", timestamp |-> ts, user_email |-> "v"]
    IN  /\ Event
        /\ rPosts' = Upsert(rPosts, (id :> row), now)
        /\ UNCHANGED <<now, realmClosed, lastPushTime, isSyncing, posts, likes, comments,
                       settings, files, rLikes, rComments, push, pull, myLike,
                       userEmail, task, retry, minted, pendingPost, lastCall, mark>>

----------------------------------------------------------------------------
(* SpecPull: a fresh install pulling a remote backlog, pulls of both       *)
(* variants interleaved with each other, with other clients and the clock. *)

\* The posts other clients pushed before: authored and pushed at time k.
BacklogIds == (RemoteBase + 1)..(RemoteBase + PULL_LIMIT + Excess)

Backlog ==
    [i \in BacklogIds |->
        [text |-> "r", image_url |-> None, video_url |-> None, media_type |-> "image",
         timestamp |-> i - RemoteBase, user_email |-> "v", deleted_at |-> None,
         updated_at |-> i - RemoteBase]]

InitPull ==
    /\ now = Epoch
    /\ realmClosed = FALSE
    /\ lastPushTime = 0
    /\ isSyncing = FALSE
    /\ posts = EmptyTable
    /\ likes = EmptyTable
    /\ comments = EmptyTable
    /\ settings = <<>>
    /\ files = {}
    /\ rPosts = Backlog
    /\ rLikes = EmptyTable
    /\ rComments = EmptyTable
    /\ push = [s \in Slots |-> IdleCycle]
    /\ pull = EmptyBag
    /\ myLike = EmptyTable
    /\ userEmail = Some("u")
    /\ task = IdleTask
    /\ retry = IdleRetry
    /\ minted = [post |-> 0, like |-> 0, comment |-> 0]
    /\ pendingPost = 0
    /\ lastCall = "none"
    /\ events = 0
    /\ mark = PullEnded("none", FALSE)

\* The pull specification has room for one more external event.
PullBudget == events < MaxPullEvents

NextPull ==
    \/ OnMigration
    \/ PullCall
    \/ \E c \in Suspended, ok \in BOOLEAN : PullReturn(c, ok)
    \/ LegacyPullCall
    \/ \E c \in Suspended, ok \in BOOLEAN : LegacyPostsReturn(c, ok)
    \/ \E c \in Suspended, ok \in BOOLEAN : LegacyLikesReturn(c, ok)
    \/ \E c \in Suspended, ok \in BOOLEAN : LegacyCommentsReturn(c, ok)
    \/ \E c \in Suspended : ServerAnswer(c)
    \/ PullBudget /\ RemotePost(now)
    \/ PullBudget /\ Tick(TICK)
    \/ PullBudget /\ CloseRealm

SpecPull == InitPull /\ [][NextPull]_vars

----------------------------------------------------------------------------
(* SpecMerge: the legacy pull meeting a post and a comment that exist on   *)
(* both sides.  "o" is the value both sides had at the last sync, "A" a    *)
(* value written locally since, "B" a value written remotely since.        *)

\* The value of a field at the last sync.
SyncedText == "o"

\* Timestamps of the local records: just before and just after the remote
\* rows' updated_at (TICK); a synced post may also carry that very instant.
LocalStamps == {TICK - 1, TICK + 1}
PostStamps(synced) == IF synced THEN LocalStamps \cup {TICK} ELSE LocalStamps

MergePost(text, stamp, synced) ==
    [SyncedPost EXCEPT !.text = text, !.remoteUrl = Some(SyncedText),
                       !.timestamp = stamp, !.isSynced = synced]

MergePostRow(text, url) ==
    [text |-> text, image_url |-> Some(url), video_url |-> None,
     media_type |-> "image", timestamp |-> 1, user_email |-> "anon",
     deleted_at |-> None, updated_at |-> TICK]

MergeComment(text, stamp, synced) ==
    [postId |-> 1, userEmail |-> "u", text |-> text, timestamp |-> stamp,
     isSynced |-> synced, deletedAt |-> None]

MergeCommentRow(text) ==
    [post_id |-> 1, user_email |-> "u", text |-> text, created_at |-> 1,
     deleted_at |-> None, updated_at |-> TICK]

InitMerge ==
    \E lt, ct \in {SyncedText, "A"}, rt, ru, crt \in {SyncedText, "B"},
       cts \in LocalStamps, sy, csy \in BOOLEAN :
      \E lts \in PostStamps(sy) :
        /\ now = Epoch
        /\ realmClosed = FALSE
        /\ lastPushTime = 0
        /\ isSyncing = FALSE
        /\ posts = (1 :> MergePost(lt, lts, sy))
        /\ likes = EmptyTable
        /\ comments = (1 :> MergeComment(ct, cts, csy))
        /\ settings = <<1>>
        /\ files = {}
        /\ rPosts = (1 :> MergePostRow(rt, ru))
        /\ rLikes = EmptyTable
        /\ rComments = (1 :> MergeCommentRow(crt))
        /\ push = [s \in Slots |-> IdleCycle]
        /\ pull = EmptyBag
        /\ myLike = EmptyTable
        /\ userEmail = Some("u")
        /\ task = IdleTask
        /\ retry = IdleRetry
        /\ minted = [post |-> 1, like |-> 0, comment |-> 1]
        /\ pendingPost = 0
        /\ lastCall = "none"
        /\ events = 0
        /\ mark = PullEnded("none", FALSE)

NextMerge ==
    \/ LegacyPullCall
    \/ \E c \in Suspended : ServerAnswer(c)
    \/ \E c \in Suspended, ok \in BOOLEAN : LegacyPostsReturn(c, ok)
    \/ \E c \in Suspended, ok \in BOOLEAN : LegacyLikesReturn(c, ok)
    \/ \E c \in Suspended, ok \in BOOLEAN : LegacyCommentsReturn(c, ok)

SpecMerge == InitMerge /\ [][NextMerge]_vars

----------------------------------------------------------------------------
(* SpecIdem: pushChanges run again and again on stores drawn from a        *)
(* bounded set, with a healthy network and no local mutation in between.   *)

\* Posts 1 and 2 as handleAddPost leaves them, with or without media.
DraftPost(media) ==
    [text |-> "t", timestamp |-> 0,
     mediaType |-> IF media = "video" THEN "video" ELSE "image",
     localUri |-> IF media = "none" THEN None ELSE Some(2),
     remoteUrl |-> None, userEmail |-> "anon",
     isSynced |-> FALSE, deletedAt |-> None]

\* A like of user u in the three states toggleLike and a push leave it in:
\* "new" (created, not pushed), "unliked" (pushed, then tombstoned) and
\* "synced".
DrawnLike(p, st) ==
    [postId |-> p, userEmail |-> "u", isSynced |-> (st = "synced"),
     deletedAt |-> IF st = "unliked" THEN Some(0) ELSE None]

\* A comment: "new" (created, not pushed), "deleted" (tombstoned, not
\* pushed) or "synced".
DrawnComment(p, st) ==
    [postId |-> p, userEmail |-> "u", text |-> "c", timestamp |-> 0,
     isSynced |-> (st = "synced"),
     deletedAt |-> IF st = "deleted" THEN Some(0) ELSE None]

\* The remote rows of the records that were pushed before.
PushedBefore(posts0, likes0, comments0) ==
    <<Upsert(EmptyTable,
             [i \in {j \in DOMAIN posts0 : posts0[j].isSynced} |->
                 PostPayload(posts0[i], posts0[i].remoteUrl)], 0),
      Upsert(EmptyTable,
             [i \in {j \in DOMAIN likes0 : likes0[j].isSynced \/ ~IsNull(likes0[j].deletedAt)} |->
                 LikeInsertRow(likes0[i])], 0),
      Upsert(EmptyTable,
             [i \in {j \in DOMAIN comments0 : comments0[j].isSynced \/ ~IsNull(comments0[j].deletedAt)} |->
                 CommentInsertRow(comments0[i])], 0)>>

InitIdem ==
    \E first \in {SyncedPost, DraftPost("none")},
       media \in {"absent", "none", "image", "video"},
       onDisk \in BOOLEAN,
       lp \in 1..3, ls \in {"new", "unliked", "synced"},
       cp \in 1..2, cs \in {"new", "deleted", "synced"} :
        LET posts0 == IF media = "absent" THEN (1 :> first)
                      ELSE (1 :> first) @@ (2 :> DraftPost(media))
            likes0 == (1 :> DrawnLike(lp, ls))
            comments0 == (1 :> DrawnComment(cp, cs))
            rows == PushedBefore(posts0, likes0, comments0)
        IN  /\ lp = 3 => ls = "synced"
            /\ onDisk => media \in {"image", "video"}
            /\ now = Epoch
            /\ realmClosed = FALSE
            /\ lastPushTime = 0
            /\ isSyncing = FALSE
            /\ posts = posts0
            /\ likes = likes0
            /\ comments = comments0
            /\ settings = <<>>
            /\ files = IF onDisk THEN {2} ELSE {}
            /\ rPosts = rows[1]
            /\ rLikes = rows[2]
            /\ rComments = rows[3]
            /\ push = [s \in Slots |-> IdleCycle]
            /\ pull = NoPull
            /\ myLike = EmptyTable
            /\ userEmail = Some("u")
            /\ task = IdleTask
            /\ retry = IdleRetry
            /\ minted = [post |-> 2, like |-> 1, comment |-> 1]
            /\ pendingPost = 0
            /\ lastCall = "none"
            /\ events = 0
            /\ mark = 0

\* The cooldown passes once the cycle that was started has ended.
CooldownPasses ==
    /\ lastCall = "started"
    /\ ~isSyncing
    /\ Tick(PUSH_COOLDOWN)

NextIdem ==
    \/ OnConnectivity
    \/ \E s \in Slots : MediaReturn(s, TRUE)
    \/ \E s \in Slots : PostUpsertReturn(s, TRUE)
    \/ \E s \in Slots : LikesDeleteReturn(s, TRUE)
    \/ \E s \in Slots : LikesInsertReturn(s, TRUE)
    \/ \E s \in Slots : CommentsDeleteReturn(s, TRUE)
    \/ \E s \in Slots : CommentsInsertReturn(s, TRUE)
    \/ CooldownPasses

SpecIdem == InitIdem /\ [][NextIdem]_vars

----------------------------------------------------------------------------
(* Prune: SyncEngine.pruneData.  In the prune specification dates are      *)
(* counted in days.                                                        *)

Surplus == 2      \* active synced posts beyond MAX_POSTS - 1 in a full store

RETENTION_DAYS == 30
MAX_POSTS == 500

\* Variant whose cutoff includes the retention boundary itself.
ExpiredOnBoundary(deletedAt, today) ==
    ~IsNull(deletedAt) /\ Val(deletedAt) <= today - RETENTION_DAYS

\* filtered('deletedAt < $0', cutoffDate), cutoffDate = now - RETENTION_MS
Expired(deletedAt, today) ==
    ~IsNull(deletedAt) /\ Val(deletedAt) < today - RETENTION_DAYS

\* 1. Delete old soft-deleted items: what is left of table T.
AfterTombstoneGC(T, today) ==
    LET reaped == {i \in DOMAIN T : Expired(T[i].deletedAt, today) /\ T[i].isSynced}
    IN  [i \in DOMAIN T \ reaped |-> T[i]]

\* sortedPosts.slice(0, k): the k oldest of the posts S of table P; equal
\* timestamps keep the order of the query (by id).
RECURSIVE Oldest(_, _, _)
Oldest(P, S, k) ==
    IF k = 0 \/ S = {} THEN {}
    ELSE LET first == CHOOSE i \in S : \A j \in S :
                          \/ P[i].timestamp < P[j].timestamp
                          \/ P[i].timestamp = P[j].timestamp /\ i <= j
         IN  {first} \cup Oldest(P, S \ {first}, k - 1)

\* Variant that slices one post fewer than the excess.
AfterSizeCapOneShort(P) ==
    LET active == {i \in DOMAIN P : IsNull(P[i].deletedAt) /\ P[i].isSynced}
        excess == Cardinality(active) - MAX_POSTS - 1
    IN  IF excess > 0
        THEN [i \in DOMAIN P \ Oldest(P, active, excess) |-> P[i]]
        ELSE P

\* Variant whose cap counts and slices every post that is not a tombstone.
AfterSizeCapUnsyncedToo(P) ==
    LET active == {i \in DOMAIN P : IsNull(P[i].deletedAt)}
        excess == Cardinality(active) - MAX_POSTS
    IN  IF excess > 0
        THEN [i \in DOMAIN P \ Oldest(P, active, excess) |-> P[i]]
        ELSE P

\* 2. Limit total posts: what is left of the posts table P.
AfterSizeCap(P) ==
    LET active == {i \in DOMAIN P : IsNull(P[i].deletedAt) /\ P[i].isSynced}
        excess == Cardinality(active) - MAX_POSTS
    IN  IF excess > 0
        THEN [i \in DOMAIN P \ Oldest(P, active, excess) |-> P[i]]
        ELSE P

\* Variant whose sweep spares the children not yet pushed.
AfterOrphanSweepSyncedOnly(T, P) ==
    [i \in {j \in DOMAIN T : T[j].postId \in DOMAIN P \/ ~T[j].isSynced} |-> T[i]]

\* 3. Clean orphaned comments and likes: what is left of child table T.
AfterOrphanSweep(T, P) == [i \in {j \in DOMAIN T : T[j].postId \in DOMAIN P} |-> T[i]]

\* History: the records one pruneData call removed, with their state.
Reaped(kind, T, T2) ==
    {[kind |-> kind, id |-> i, deletedAt |-> T[i].deletedAt, isSynced |-> T[i].isSynced]
        : i \in DOMAIN T \ DOMAIN T2}

\* SyncEngine.pruneData(realm): the three steps in one realm.write.  There
\* is no isClosed test: realm.write on a closed realm throws.
PruneData ==
    LET gcPosts == AfterTombstoneGC(posts, now)
        gcComments == AfterTombstoneGC(comments, now)
        gcLikes == AfterTombstoneGC(likes, now)
        capped == AfterSizeCap(gcPosts)
        keptComments == AfterOrphanSweep(gcComments, capped)
        keptLikes == AfterOrphanSweep(gcLikes, capped)
    IN  /\ IF realmClosed
           THEN /\ lastCall' = "thrown"
                /\ UNCHANGED <<posts, comments, likes, mark>>
           ELSE /\ posts' = capped
                /\ comments' = keptComments
                /\ likes' = keptLikes
                /\ mark' = Reaped("Post", posts, capped)
                             \cup Reaped("Like", likes, keptLikes)
                             \cup Reaped("Comment", comments, keptComments)
                /\ lastCall' = "pruned"
        /\ UNCHANGED <<now, realmClosed, lastPushTime, isSyncing, settings, files,
                       rPosts, rLikes, rComments, push, pull, myLike, userEmail, task, retry,
                       minted, pendingPost, events>>

----------------------------------------------------------------------------
(* SpecPrune: pruneData on stores drawn from the schema, days passing.     *)

StartDay == MAX_POSTS + RETENTION_DAYS + RETENTION_DAYS

\* Ages (in days) of the tombstones drawn: around the retention boundary.
Ages == {5, RETENTION_DAYS, RETENTION_DAYS + 1}

\* A full store: MAX_POSTS - 1 + Surplus active synced posts pulled earlier.
BulkIds == {MAX_POSTS + k : k \in 1..(MAX_POSTS - 1 + Surplus)}
BulkPost(i) == [SyncedPost EXCEPT !.timestamp = i - MAX_POSTS]

\* The parents drawn for like 1 and comment 1: post 1, or the newest post
\* of a full store (a post the store does not hold otherwise).
Parents == {1, MAX_POSTS + MAX_POSTS - 1 + Surplus}

\* The states drawn for post 1 (the oldest post), like 1 and comment 1.
PostStates ==
    {SyncedPost, [SyncedPost EXCEPT !.isSynced = FALSE]}
    \cup {[SyncedPost EXCEPT !.deletedAt = Some(StartDay - a)] : a \in Ages}
    \cup {[SyncedPost EXCEPT !.deletedAt = Some(StartDay - RETENTION_DAYS - 1),
                             !.isSynced = FALSE]}

LikeStates ==
    {[postId |-> p, userEmail |-> "u", isSynced |-> sy,
      deletedAt |-> IF a = 0 THEN None ELSE Some(StartDay - a)]
        : p \in Parents, sy \in BOOLEAN, a \in {0} \cup Ages}

CommentStates ==
    {[postId |-> p, userEmail |-> "u", text |-> "c", timestamp |-> 0,
      isSynced |-> TRUE, deletedAt |-> IF a = 0 THEN None ELSE Some(StartDay - a)]
        : p \in Parents, a \in {0} \cup Ages}

InitPrune ==
    \E p1 \in PostStates, l1 \in LikeStates, c1 \in CommentStates, full \in BOOLEAN :
        /\ now = StartDay
        /\ realmClosed = FALSE
        /\ lastPushTime = 0
        /\ isSyncing = FALSE
        /\ posts = IF full THEN (1 :> p1) @@ [i \in BulkIds |-> BulkPost(i)]
                   ELSE (1 :> p1)
        /\ likes = (1 :> l1)
        /\ comments = (1 :> c1)
        /\ settings = <<>>
        /\ files = {}
        /\ rPosts = EmptyTable
        /\ rLikes = EmptyTable
        /\ rComments = EmptyTable
        /\ push = [s \in Slots |-> IdleCycle]
        /\ pull = NoPull
        /\ myLike = EmptyTable
        /\ userEmail = Some("u")
        /\ task = IdleTask
        /\ retry = IdleRetry
        /\ minted = [post |-> 1, like |-> 1, comment |-> 1]
        /\ pendingPost = 0
        /\ lastCall = "none"
        /\ events = 0
        /\ mark = {}

NextPrune ==
    \/ PruneData
    \/ Tick(1)

SpecPrune == InitPrune /\ [][NextPrune]_vars

----------------------------------------------------------------------------
(* SpecMedia: an unsynced post whose media file is missing, with an        *)
(* unsynced like on it; push cycles on a healthy network, the file coming  *)
(* back at any moment.                                                     *)

\* History: whether the file has come back, and the lastPushTime then.
FileState(restored, stamp) == [restored |-> restored, stamp |-> stamp]

\* The media file of post p is in the documents directory again.
FileRestored(p) ==
    /\ p \in DOMAIN posts
    /\ ~IsNull(posts[p].localUri)
    /\ p \notin files
    /\ files' = files \cup {p}
    /\ mark' = FileState(TRUE, lastPushTime)
    /\ UNCHANGED <<now, realmClosed, lastPushTime, isSyncing, posts, likes, comments,
                   settings, rPosts, rLikes, rComments, push, pull, myLike,
                   userEmail, task, retry, minted, pendingPost, lastCall, events>>

\* Post 2 of the media specification: unsynced, its file missing.
MediaPost(mediaType) ==
    [text |-> "t", timestamp |-> 1, mediaType |-> mediaType, localUri |-> Some(2),
     remoteUrl |-> None, userEmail |-> "anon", isSynced |-> FALSE, deletedAt |-> None]

InitMedia ==
    \E mediaType \in {"image", "video"}, other \in SUBSET {2}, commented \in SUBSET {1} :
        /\ now = Epoch
        /\ realmClosed = FALSE
        /\ lastPushTime = 0
        /\ isSyncing = FALSE
        /\ posts = (1 :> SyncedPost) @@ (2 :> MediaPost(mediaType))
        /\ likes = (1 :> DrawnLike(2, "new")) @@ [i \in other |-> DrawnLike(1, "new")]
        /\ comments = [i \in commented |-> DrawnComment(2, "new")]
        /\ settings = <<>>
        /\ files = {}
        /\ rPosts = Upsert(EmptyTable, (1 :> PostPayload(SyncedPost, None)), 0)
        /\ rLikes = EmptyTable
        /\ rComments = EmptyTable
        /\ push = [s \in Slots |-> IdleCycle]
        /\ pull = NoPull
        /\ myLike = EmptyTable
        /\ userEmail = Some("u")
        /\ task = IdleTask
        /\ retry = IdleRetry
        /\ minted = [post |-> 2, like |-> 2, comment |-> 1]
        /\ pendingPost = 0
        /\ lastCall = "none"
        /\ events = 0
        /\ mark = FileState(FALSE, 0)

NextMedia ==
    \/ OnConnectivity
    \/ \E s \in Slots : MediaReturn(s, TRUE)
    \/ \E s \in Slots : PostUpsertReturn(s, TRUE)
    \/ \E s \in Slots : LikesInsertReturn(s, TRUE)
    \/ \E s \in Slots : CommentsInsertReturn(s, TRUE)
    \/ \E d \in {TICK, PUSH_COOLDOWN} : Tick(d)
    \/ FileRestored(2)

SpecMedia == InitMedia /\ [][NextMedia]_vars

----------------------------------------------------------------------------
(* SpecToggle: taps on the like button of a post the user has liked, the   *)
(* like being synced; the last push cycle ended half a cooldown ago.  The  *)
(* only events counted are the taps.                                       *)

\* lastPushTime at the start of the toggle specification.
LastCycle == Epoch - TICK

\* Time passes between two taps, up to the end of the running cooldown.
TimePasses(d) ==
    /\ now + d <= LastCycle + PUSH_COOLDOWN
    /\ now' = now + d
    /\ UNCHANGED <<realmClosed, lastPushTime, isSyncing, posts, likes, comments,
                   settings, files, rPosts, rLikes, rComments, push, pull, myLike,
                   userEmail, task, retry, minted, pendingPost, lastCall, events, mark>>

\* A like of another user on post 1, synced.
OthersLike == [postId |-> 1, userEmail |-> "v", isSynced |-> TRUE, deletedAt |-> None]

InitToggle ==
    \E others \in SUBSET {2}, commented \in SUBSET {1} :
        LET likes0 == (1 :> DrawnLike(1, "synced")) @@ [i \in others |-> OthersLike]
            comments0 == [i \in commented |-> DrawnComment(1, "synced")]
        IN  /\ now = Epoch
            /\ realmClosed = FALSE
            /\ lastPushTime = LastCycle
            /\ isSyncing = FALSE
            /\ posts = (1 :> SyncedPost)
            /\ likes = likes0
            /\ comments = comments0
            /\ settings = <<>>
            /\ files = {}
            /\ rPosts = Upsert(EmptyTable, (1 :> PostPayload(SyncedPost, None)), 0)
            /\ rLikes = Upsert(EmptyTable, [i \in DOMAIN likes0 |-> LikeInsertRow(likes0[i])], 0)
            /\ rComments = Upsert(EmptyTable,
                                  [i \in commented |-> CommentInsertRow(comments0[i])], 0)
            /\ push = [s \in Slots |-> IdleCycle]
            /\ pull = NoPull
            /\ myLike = (1 :> 1)
            /\ userEmail = Some("u")
            /\ task = IdleTask
            /\ retry = IdleRetry
            /\ minted = [post |-> 1, like |-> 2, comment |-> 1]
            /\ pendingPost = 0
            /\ lastCall = "none"
            /\ events = 0
            /\ mark = 0

NextToggle ==
    \/ ToggleLike(1)
    \/ Render(1)
    \/ TimePasses(TICK)
    \/ \E s \in Slots : LikesDeleteReturn(s, TRUE)
    \/ \E s \in Slots : LikesInsertReturn(s, TRUE)

SpecToggle == InitToggle /\ [][NextToggle]_vars

\* What happens without the user: renders, the clock, and the returns of
\* the remote calls in flight.
ToggleSettles ==
    \/ Render(1)
    \/ TimePasses(TICK)
    \/ \E s \in Slots : LikesDeleteReturn(s, TRUE)
    \/ \E s \in Slots : LikesInsertReturn(s, TRUE)

\* Every call in flight returns and time goes on; taps may stop at any point.
SpecToggleLive == SpecToggle /\ WF_vars(ToggleSettles)

----------------------------------------------------------------------------
(* SpecTomb: a store that holds tombstones of the three kinds, some past   *)
(* retention; taps on the like button of post 1, the push cycle they       *)
(* start, pulls and prunes.                                                *)

\* Post 2, tombstoned after it was pushed; the tombstone pushed (sy) or not.
TombPost(sy) == [SyncedPost EXCEPT !.timestamp = 1, !.deletedAt = Some(2), !.isSynced = sy]

\* The remote rows of posts 1 and 2 and a post of another client.
TombRemote(p2) ==
    Upsert(EmptyTable,
           (1 :> PostPayload(SyncedPost, None))
           @@ (2 :> PostPayload(IF p2.isSynced THEN p2 ELSE [p2 EXCEPT !.deletedAt = None],
                                None))
           @@ (RemoteBase + 1 :> [text |-> "r", image_url |-> None, video_url |-> None,
                                   media_type |-> "image", timestamp |-> 1,
                                   user_email |-> "v"]), 0)

InitTomb ==
    \E sy \in BOOLEAN, ls \in {"unliked", "synced"}, cs \in {"new", "deleted"} :
        LET posts0 == (1 :> SyncedPost) @@ (2 :> TombPost(sy))
            likes0 == (1 :> DrawnLike(1, ls))
            comments0 == (1 :> DrawnComment(1, cs))
            rows == PushedBefore(posts0, likes0, comments0)
        IN  /\ now = Epoch
            /\ realmClosed = FALSE
            /\ lastPushTime = 0
            /\ isSyncing = FALSE
            /\ posts = posts0
            /\ likes = likes0
            /\ comments = comments0
            /\ settings = <<>>
            /\ files = {}
            /\ rPosts = TombRemote(posts0[2])
            /\ rLikes = rows[2]
            /\ rComments = rows[3]
            /\ push = [s \in Slots |-> IdleCycle]
            /\ pull = NoPull
            /\ myLike = IF ls = "synced" THEN (1 :> 1) ELSE EmptyTable
            /\ userEmail = Some("u")
            /\ task = IdleTask
            /\ retry = IdleRetry
            /\ minted = [post |-> 2, like |-> 1, comment |-> 1]
            /\ pendingPost = 0
            /\ lastCall = "none"
            /\ events = 0
            /\ mark = 0

NextTomb ==
    \/ ToggleLike(1)
    \/ Render(1)
    \/ \E s \in Slots : PostUpsertReturn(s, TRUE)
    \/ \E s \in Slots, ok \in BOOLEAN : LikesDeleteReturn(s, ok)
    \/ \E s \in Slots, ok \in BOOLEAN : LikesInsertReturn(s, ok)
    \/ \E s \in Slots : CommentsDeleteReturn(s, TRUE)
    \/ \E s \in Slots : CommentsInsertReturn(s, TRUE)
    \/ pull = NoPull /\ PullCall
    \/ \E c \in Suspended : ServerAnswer(c)
    \/ \E c \in Suspended : PullReturn(c, TRUE)
    \/ PruneData

SpecTomb == InitTomb /\ [][NextTomb]_vars

----------------------------------------------------------------------------
(* SpecCycle: one push cycle over a store with unsynced posts, likes and   *)
(* comments, every remote call succeeding or failing.  The clock stands    *)
(* still, so the cooldown refuses every call after the first.              *)

\* The children whose parent was pushed before.
OfSynced(P, T) == [i \in {j \in DOMAIN T : P[T[j].postId].isSynced} |-> T[i]]

InitCycle ==
    \E first \in {SyncedPost, DraftPost("none")}, media \in {"none", "image"},
       lp \in 1..2, ls \in {"new", "unliked"}, ls2 \in {"new", "unliked"},
       cp \in 1..2, cs \in {"new", "deleted"} :
        LET posts0 == (1 :> first) @@ (2 :> DraftPost(media))
            likes0 == (1 :> DrawnLike(lp, ls)) @@ (2 :> DrawnLike(3 - lp, ls2))
            comments0 == (1 :> DrawnComment(cp, cs))
            rows == PushedBefore(posts0, OfSynced(posts0, likes0),
                                 OfSynced(posts0, comments0))
        IN  /\ now = Epoch
            /\ realmClosed = FALSE
            /\ lastPushTime = 0
            /\ isSyncing = FALSE
            /\ posts = posts0
            /\ likes = likes0
            /\ comments = comments0
            /\ settings = <<>>
            /\ files = {2}
            /\ rPosts = rows[1]
            /\ rLikes = rows[2]
            /\ rComments = rows[3]
            /\ push = [s \in Slots |-> IdleCycle]
            /\ pull = NoPull
            /\ myLike = EmptyTable
            /\ userEmail = Some("u")
            /\ task = IdleTask
            /\ retry = IdleRetry
            /\ minted = [post |-> 2, like |-> 2, comment |-> 1]
            /\ pendingPost = 0
            /\ lastCall = "none"
            /\ events = 0
            /\ mark = {i \in DOMAIN posts0 : posts0[i].isSynced}

NextCycle ==
    \/ OnConnectivity
    \/ \E s \in Slots, ok \in BOOLEAN : MediaReturn(s, ok)
    \/ \E s \in Slots, ok \in BOOLEAN : PostUpsertReturn(s, ok)
    \/ \E s \in Slots, ok \in BOOLEAN : LikesDeleteReturn(s, ok)
    \/ \E s \in Slots, ok \in BOOLEAN : LikesInsertReturn(s, ok)
    \/ \E s \in Slots, ok \in BOOLEAN : CommentsDeleteReturn(s, ok)
    \/ \E s \in Slots, ok \in BOOLEAN : CommentsInsertReturn(s, ok)

SpecCycle == InitCycle /\ [][NextCycle]_vars

----------------------------------------------------------------------------
(* SpecHeal: a store with unsynced records; the remote calls of the cycle  *)
(* that starts at Epoch may fail, those of every later cycle succeed, and  *)
(* a push is triggered whenever the cooldown has passed.                   *)

\* The network is down until the clock moves on.
Faulty == now = Epoch

\* A push triggered outside the cooldown, no cycle being in flight.
TriggerPush ==
    /\ ~isSyncing
    /\ now - lastPushTime >= PUSH_COOLDOWN
    /\ OnConnectivity

InitHeal ==
    \E first \in {SyncedPost, DraftPost("none")}, media \in {"none", "image"},
       onDisk \in BOOLEAN, lp \in 1..2, ls \in {"new", "unliked"},
       cp \in 1..2, cs \in {"new", "deleted"} :
        LET posts0 == (1 :> first) @@ (2 :> DraftPost(media))
            likes0 == (1 :> DrawnLike(lp, ls))
            comments0 == (1 :> DrawnComment(cp, cs))
            rows == PushedBefore(posts0, OfSynced(posts0, likes0),
                                 OfSynced(posts0, comments0))
        IN  /\ onDisk => media = "image"
            /\ now = Epoch
            /\ realmClosed = FALSE
            /\ lastPushTime = 0
            /\ isSyncing = FALSE
            /\ posts = posts0
            /\ likes = likes0
            /\ comments = comments0
            /\ settings = <<>>
            /\ files = IF onDisk THEN {2} ELSE {}
            /\ rPosts = rows[1]
            /\ rLikes = rows[2]
            /\ rComments = rows[3]
            /\ push = [s \in Slots |-> IdleCycle]
            /\ pull = NoPull
            /\ myLike = EmptyTable
            /\ userEmail = Some("u")
            /\ task = IdleTask
            /\ retry = IdleRetry
            /\ minted = [post |-> 2, like |-> 1, comment |-> 1]
            /\ pendingPost = 0
            /\ lastCall = "none"
            /\ events = 0
            /\ mark = 0

NextHeal ==
    \/ TriggerPush
    \/ now - lastPushTime < PUSH_COOLDOWN /\ CooldownPasses
    \/ \E s \in Slots, ok \in BOOLEAN : (~ok => Faulty) /\ MediaReturn(s, ok)
    \/ \E s \in Slots, ok \in BOOLEAN : (~ok => Faulty) /\ PostUpsertReturn(s, ok)
    \/ \E s \in Slots, ok \in BOOLEAN : (~ok => Faulty) /\ LikesDeleteReturn(s, ok)
    \/ \E s \in Slots, ok \in BOOLEAN : (~ok => Faulty) /\ LikesInsertReturn(s, ok)
    \/ \E s \in Slots, ok \in BOOLEAN : (~ok => Faulty) /\ CommentsDeleteReturn(s, ok)
    \/ \E s \in Slots, ok \in BOOLEAN : (~ok => Faulty) /\ CommentsInsertReturn(s, ok)

SpecHeal == InitHeal /\ [][NextHeal]_vars

\* Every awaited call returns, and pushes keep being triggered.
SpecHealLive == SpecHeal /\ WF_vars(NextHeal)

----------------------------------------------------------------------------
(* SpecEntry: the three entry points called on a store that is open or     *)
(* closed, with unsynced records in it.                                    *)

\* SyncEngine.pushChanges(realm) called directly.
PushEntry ==
    /\ PushCall(posts, likes, comments)
    /\ UNCHANGED <<now, realmClosed, settings, files, rPosts, rLikes, rComments,
                   pull, myLike, userEmail, task, retry, minted, pendingPost, events, mark>>

InitEntry ==
    \E closed \in BOOLEAN, lp \in 1..2, ls \in {"new", "unliked"},
       ls2 \in {"new", "unliked"}, cp \in 1..2, cs \in {"new", "deleted"} :
        LET posts0 == (1 :> SyncedPost) @@ (2 :> DraftPost("none"))
            likes0 == (1 :> DrawnLike(lp, ls)) @@ (2 :> DrawnLike(3 - lp, ls2))
            comments0 == (1 :> DrawnComment(cp, cs))
            rows == PushedBefore(posts0, OfSynced(posts0, likes0),
                                 OfSynced(posts0, comments0))
        IN  /\ now = Epoch
            /\ realmClosed = closed
            /\ lastPushTime = 0
            /\ isSyncing = FALSE
            /\ posts = posts0
            /\ likes = likes0
            /\ comments = comments0
            /\ settings = <<>>
            /\ files = {}
            /\ rPosts = rows[1]
            /\ rLikes = rows[2]
            /\ rComments = rows[3]
            /\ push = [s \in Slots |-> IdleCycle]
            /\ pull = NoPull
            /\ myLike = EmptyTable
            /\ userEmail = Some("u")
            /\ task = IdleTask
            /\ retry = IdleRetry
            /\ minted = [post |-> 2, like |-> 2, comment |-> 1]
            /\ pendingPost = 0
            /\ lastCall = "none"
            /\ events = 0
            /\ mark = 0

NextEntry ==
    \/ PushEntry
    \/ pull = NoPull /\ PullCall
    \/ PruneData
    \/ \E s \in Slots : PostUpsertReturn(s, TRUE)
    \/ \E s \in Slots : LikesDeleteReturn(s, TRUE)
    \/ \E s \in Slots : LikesInsertReturn(s, TRUE)
    \/ \E s \in Slots : CommentsDeleteReturn(s, TRUE)
    \/ \E s \in Slots : CommentsInsertReturn(s, TRUE)
    \/ \E c \in Suspended : ServerAnswer(c)
    \/ \E c \in Suspended : PullReturn(c, TRUE)

SpecEntry == InitEntry /\ [][NextEntry]_vars

----------------------------------------------------------------------------
(* SpecConnect: the NetInfo listener of the root layout, called when the   *)
(* device comes online, over a store with unsynced records.                *)

\* NetInfo listener, state.isConnected: pushChanges(realm) runs up to its
\* first await, then pullChanges(realm) runs up to its select; neither
\* promise is awaited.
OnConnected ==
    /\ Event
    /\ ~realmClosed
    /\ PushCall(posts, likes, comments)
    /\ BagCardinality(pull) < MaxPulls
    /\ settings' = EnsureSettings(settings)
    /\ pull' = Started(Call("pull", LastSync))
    /\ UNCHANGED <<now, realmClosed, files, rPosts, rLikes, rComments, myLike,
                   userEmail, task, retry, minted, pendingPost, mark>>

\* A post another client pushed at time 1.
ForeignRow == [text |-> "r", image_url |-> None, video_url |-> None,
               media_type |-> "image", timestamp |-> 1, user_email |-> "v"]

InitConnect ==
    \E drafts \in SUBSET {2}, media \in {"none", "image"},
       ls \in {"new", "unliked", "synced"}, cs \in {"new", "deleted", "synced"} :
        LET posts0 == (1 :> SyncedPost)
                      @@ [i \in drafts |-> [DraftPost(media) EXCEPT !.timestamp = i]]
            likes0 == (1 :> DrawnLike(1, ls))
            comments0 == (1 :> DrawnComment(1, cs))
            rows == PushedBefore(posts0, likes0, comments0)
        IN  /\ now = Epoch
            /\ realmClosed = FALSE
            /\ lastPushTime = 0
            /\ isSyncing = FALSE
            /\ posts = posts0
            /\ likes = likes0
            /\ comments = comments0
            /\ settings = <<>>
            /\ files = drafts
            /\ rPosts = Upsert(rows[1], (RemoteBase + 1 :> ForeignRow), 0)
            /\ rLikes = rows[2]
            /\ rComments = rows[3]
            /\ push = [s \in Slots |-> IdleCycle]
            /\ pull = NoPull
            /\ myLike = EmptyTable
            /\ userEmail = Some("u")
            /\ task = IdleTask
            /\ retry = IdleRetry
            /\ minted = [post |-> 2, like |-> 1, comment |-> 1]
            /\ pendingPost = 0
            /\ lastCall = "none"
            /\ events = 0
            /\ mark = PullEnded("none", FALSE)

NextConnect ==
    \/ OnConnected
    \/ Tick(PUSH_COOLDOWN)
    \/ \E s \in Slots : MediaReturn(s, TRUE)
    \/ \E s \in Slots : PostUpsertReturn(s, TRUE)
    \/ \E s \in Slots : LikesDeleteReturn(s, TRUE)
    \/ \E s \in Slots : LikesInsertReturn(s, TRUE)
    \/ \E s \in Slots : CommentsDeleteReturn(s, TRUE)
    \/ \E s \in Slots : CommentsInsertReturn(s, TRUE)
    \/ \E c \in Suspended : ServerAnswer(c)
    \/ \E c \in Suspended : PullReturn(c, TRUE)

SpecConnect == InitConnect /\ [][NextConnect]_vars

----------------------------------------------------------------------------
(* SpecTask: the background task invoked again and again as time passes;   *)
(* Realm.open and each awaited phase resolve or reject.                    *)

InitTask == Init

NextTask ==
    \/ TaskRun
    \/ \E ok \in BOOLEAN : TaskOpened(ok)
    \/ \E threw \in BOOLEAN : TaskPhaseEnds(threw)
    \/ Tick(TICK)

SpecTask == InitTask /\ [][NextTask]_vars

----------------------------------------------------------------------------
(* SpecFields: ConflictResolver.fieldLevelMerge applied to a local object, *)
(* a remote row and a last synced version drawn from the values "o" (as at *)
(* the last sync), "A" and "B".                                            *)

FieldValues == {SyncedText, "A", "B"}

\* The arguments of one call and, once it has returned, its result.
MergeArgs(local, r, base) ==
    [local |-> local, remote |-> r, base |-> base, merged |-> None]

\* merged = ConflictResolver.fieldLevelMerge(local, remote, base)
ApplyMerge ==
    /\ IsNull(mark.merged)
    /\ mark' = [mark EXCEPT
                   !.merged = Some(FieldLevelMerge(mark.local, mark.remote,
                                                   Some(mark.base)))]
    /\ UNCHANGED <<now, realmClosed, lastPushTime, isSyncing, posts, likes, comments,
                   settings, files, rPosts, rLikes, rComments, push, pull, myLike,
                   userEmail, task, retry, minted, pendingPost, lastCall, events>>

InitFields ==
    \E lt, rt, bt, lu, ru, bu \in FieldValues, lts \in PostStamps(TRUE) :
        /\ now = Epoch
        /\ realmClosed = FALSE
        /\ lastPushTime = 0
        /\ isSyncing = FALSE
        /\ posts = EmptyTable
        /\ likes = EmptyTable
        /\ comments = EmptyTable
        /\ settings = <<>>
        /\ files = {}
        /\ rPosts = EmptyTable
        /\ rLikes = EmptyTable
        /\ rComments = EmptyTable
        /\ push = [s \in Slots |-> IdleCycle]
        /\ pull = NoPull
        /\ myLike = EmptyTable
        /\ userEmail = Some("u")
        /\ task = IdleTask
        /\ retry = IdleRetry
        /\ minted = [post |-> 0, like |-> 0, comment |-> 0]
        /\ pendingPost = 0
        /\ lastCall = "none"
        /\ events = 0
        /\ mark = MergeArgs([text |-> lt, image_url |-> Some(lu), timestamp |-> lts],
                            [text |-> rt, image_url |-> Some(ru), updated_at |-> TICK],
                            [text |-> bt, image_url |-> Some(bu)])

NextFields == ApplyMerge

SpecFields == InitFields /\ [][NextFields]_vars

----------------------------------------------------------------------------
(* SpecTxn: pushChanges, pullChanges and pruneData of part_000 statement by *)
(* statement, around their realm.write calls and their awaits.  A function *)
(* runs from one await to the next without interruption; the three calls   *)
(* interleave at their awaits.  The store is left out: only the position   *)
(* of each call and the open write transaction are kept.                   *)

\* A statement: "begin" and "commit" open and close a realm.write, "assign"
\* is a statement of its callback, "file" an awaited file-system call, "call"
\* an awaited remote call, "retried" an awaited remote call made through
\* RetryEngine.executeWithBackoff.  fail is where control continues when the
\* awaited call fails.
Stmt(op, line, fail) == [op |-> op, line |-> line, fail |-> fail]

\* pushChanges: one image post, then the two batches of likes and of comments.
PushScript ==
    << Stmt("file", 139, 11), Stmt("file", 148, 11), Stmt("call", 154, 11),
       Stmt("begin", 169, 0), Stmt("assign", 170, 0), Stmt("commit", 171, 0),
       Stmt("retried", 191, 11),
       Stmt("begin", 201, 0), Stmt("assign", 202, 0), Stmt("commit", 203, 0),
       Stmt("retried", 239, 15),
       Stmt("begin", 249, 0), Stmt("assign", 250, 0), Stmt("commit", 251, 0),
       Stmt("retried", 263, 19),
       Stmt("begin", 273, 0), Stmt("assign", 274, 0), Stmt("commit", 275, 0),
       Stmt("retried", 307, 23),
       Stmt("begin", 317, 0), Stmt("assign", 318, 0), Stmt("commit", 319, 0),
       Stmt("retried", 332, 27),
       Stmt("begin", 342, 0), Stmt("assign", 343, 0), Stmt("commit", 344, 0) >>

\* Variant of pullChanges whose select is awaited inside the transaction
\* that creates SystemSettings.
PullScriptAwaitInside ==
    << Stmt("begin", 364, 0), Stmt("assign", 365, 0), Stmt("call", 374, 9),
       Stmt("commit", 369, 0),
       Stmt("begin", 383, 0), Stmt("assign", 387, 0), Stmt("assign", 399, 0),
       Stmt("commit", 400, 0) >>

\* pullChanges on a store without SystemSettings.
PullScript ==
    << Stmt("begin", 364, 0), Stmt("assign", 365, 0), Stmt("commit", 369, 0),
       Stmt("call", 374, 9),
       Stmt("begin", 383, 0), Stmt("assign", 387, 0), Stmt("assign", 399, 0),
       Stmt("commit", 400, 0) >>

\* pruneData
PruneScript ==
    << Stmt("begin", 445, 0), Stmt("assign", 451, 0), Stmt("assign", 458, 0),
       Stmt("assign", 465, 0), Stmt("assign", 479, 0), Stmt("assign", 495, 0),
       Stmt("assign", 500, 0), Stmt("commit", 502, 0) >>

Functions == {"push", "pull", "prune"}

Script(f) == IF f = "push" THEN PushScript
             ELSE IF f = "pull" THEN PullScript
             ELSE PruneScript

\* No function holds the thread.
ThreadFree == \A g \in Functions : mark.st[g] # "running"

\* The function is called.
TxnEnter(f) ==
    /\ ThreadFree
    /\ mark.st[f] = "idle"
    /\ mark' = [mark EXCEPT !.st[f] = "running", !.pos[f] = 1]
    /\ UNCHANGED <<now, realmClosed, lastPushTime, isSyncing, posts, likes, comments,
                   settings, files, rPosts, rLikes, rComments, push, pull, myLike,
                   userEmail, task, retry, minted, pendingPost, lastCall, events>>

\* The running function executes its next statement.
TxnStep(f) ==
    /\ mark.st[f] = "running"
    /\ IF mark.pos[f] > Len(Script(f))
       THEN mark' = [mark EXCEPT !.st[f] = "done"]
       ELSE LET stmt == Script(f)[mark.pos[f]]
            IN  IF stmt.op = "begin"
                THEN mark' = [mark EXCEPT !.txn = f, !.pos[f] = @ + 1]
                ELSE IF stmt.op = "commit"
                THEN mark' = [mark EXCEPT !.txn = "none", !.pos[f] = @ + 1]
                ELSE IF stmt.op = "assign"
                THEN mark' = [mark EXCEPT !.pos[f] = @ + 1]
                ELSE mark' = [mark EXCEPT !.st[f] = "suspended"]
    /\ UNCHANGED <<now, realmClosed, lastPushTime, isSyncing, posts, likes, comments,
                   settings, files, rPosts, rLikes, rComments, push, pull, myLike,
                   userEmail, task, retry, minted, pendingPost, lastCall, events>>

\* The call a function awaits succeeds or fails.  A failed call made
\* through executeWithBackoff is followed by a sleep while attempts remain.
TxnSettle(f, ok) ==
    /\ ThreadFree
    /\ mark.st[f] = "suspended"
    /\ ~mark.asleep[f]
    /\ LET stmt == Script(f)[mark.pos[f]]
       IN  IF ok
           THEN mark' = [mark EXCEPT !.st[f] = "running", !.pos[f] = @ + 1,
                                     !.attempt[f] = 0]
           ELSE IF stmt.op = "retried" /\ mark.attempt[f] < maxRetries
           THEN mark' = [mark EXCEPT !.asleep[f] = TRUE, !.attempt[f] = @ + 1]
           ELSE mark' = [mark EXCEPT !.st[f] = "running", !.pos[f] = stmt.fail,
                                     !.attempt[f] = 0]
    /\ UNCHANGED <<now, realmClosed, lastPushTime, isSyncing, posts, likes, comments,
                   settings, files, rPosts, rLikes, rComments, push, pull, myLike,
                   userEmail, task, retry, minted, pendingPost, lastCall, events>>

\* The timer of a retry sleep fires: the operation is called again.
TxnTimer(f) ==
    /\ ThreadFree
    /\ mark.asleep[f]
    /\ mark' = [mark EXCEPT !.asleep[f] = FALSE]
    /\ UNCHANGED <<now, realmClosed, lastPushTime, isSyncing, posts, likes, comments,
                   settings, files, rPosts, rLikes, rComments, push, pull, myLike,
                   userEmail, task, retry, minted, pendingPost, lastCall, events>>

InitTxn ==
    /\ now = Epoch
    /\ realmClosed = FALSE
    /\ lastPushTime = 0
    /\ isSyncing = FALSE
    /\ posts = EmptyTable
    /\ likes = EmptyTable
    /\ comments = EmptyTable
    /\ settings = <<>>
    /\ files = {}
    /\ rPosts = EmptyTable
    /\ rLikes = EmptyTable
    /\ rComments = EmptyTable
    /\ push = [s \in Slots |-> IdleCycle]
    /\ pull = NoPull
    /\ myLike = EmptyTable
    /\ userEmail = Some("u")
    /\ task = IdleTask
    /\ retry = IdleRetry
    /\ minted = [post |-> 0, like |-> 0, comment |-> 0]
    /\ pendingPost = 0
    /\ lastCall = "none"
    /\ events = 0
    /\ mark = [st |-> [f \in Functions |-> "idle"],
               pos |-> [f \in Functions |-> 0],
               attempt |-> [f \in Functions |-> 0],
               asleep |-> [f \in Functions |-> FALSE],
               txn |-> "none"]

NextTxn ==
    \/ \E f \in Functions : TxnEnter(f)
    \/ \E f \in Functions : TxnStep(f)
    \/ \E f \in Functions, ok \in BOOLEAN : TxnSettle(f, ok)
    \/ \E f \in Functions : TxnTimer(f)

SpecTxn == InitTxn /\ [][NextTxn]_vars

----------------------------------------------------------------------------
(* SpecLate: pullChanges of part_000 called again and again on a device    *)
(* that starts empty, while other clients push posts they authored just    *)
(* now or earlier, offline.                                                *)

\* Authoring times of the posts other clients push: long ago, or now.
AuthoredAt == {1, now}

\* Ids other clients can mint.
LateIds == (RemoteBase + 1)..(RemoteBase + 1 + MaxEvents)

InitLate ==
    /\ now = Epoch
    /\ realmClosed = FALSE
    /\ lastPushTime = 0
    /\ isSyncing = FALSE
    /\ posts = EmptyTable
    /\ likes = EmptyTable
    /\ comments = EmptyTable
    /\ settings = <<>>
    /\ files = {}
    /\ rPosts = Upsert(EmptyTable, (RemoteBase + 1 :> ForeignRow), 0)
    /\ rLikes = EmptyTable
    /\ rComments = EmptyTable
    /\ push = [s \in Slots |-> IdleCycle]
    /\ pull = NoPull
    /\ myLike = EmptyTable
    /\ userEmail = Some("u")
    /\ task = IdleTask
    /\ retry = IdleRetry
    /\ minted = [post |-> 0, like |-> 0, comment |-> 0]
    /\ pendingPost = 0
    /\ lastCall = "none"
    /\ events = 0
    /\ mark = PullEnded("none", FALSE)

\* One pullChanges call after the other, each running to its end.
PullsLate ==
    \/ pull = NoPull /\ PullCall
    \/ \E c \in Suspended : ServerAnswer(c)
    \/ \E c \in Suspended : PullReturn(c, TRUE)

NextLate ==
    \/ PullsLate
    \/ \E ts \in AuthoredAt : RemotePost(ts)
    \/ Tick(TICK)

SpecLate == InitLate /\ [][NextLate]_vars

\* Pulls keep being called and every select returns.
SpecLateLive == SpecLate /\ WF_vars(PullsLate)

----------------------------------------------------------------------------
(* SpecRetry: executeWithBackoff called with operations that resolve or    *)
(* reject at each attempt; SpecRetryLive adds that every pending promise   *)
(* settles and every timer fires.                                          *)

InitRetry ==
    /\ now = Epoch
    /\ realmClosed = FALSE
    /\ lastPushTime = 0
    /\ isSyncing = FALSE
    /\ posts = EmptyTable
    /\ likes = EmptyTable
    /\ comments = EmptyTable
    /\ settings = <<>>
    /\ files = {}
    /\ rPosts = EmptyTable
    /\ rLikes = EmptyTable
    /\ rComments = EmptyTable
    /\ push = [s \in Slots |-> IdleCycle]
    /\ pull = NoPull
    /\ myLike = EmptyTable
    /\ userEmail = Some("u")
    /\ task = IdleTask
    /\ retry = IdleRetry
    /\ minted = [post |-> 0, like |-> 0, comment |-> 0]
    /\ pendingPost = 0
    /\ lastCall = "none"
    /\ events = 0
    /\ mark = {}

NextRetry ==
    \/ ExecuteWithBackoff
    \/ \E v \in OperationValues : OperationResolves(v)
    \/ OperationRejects
    \/ \E late \in 0..Jitter : TimerFires(late)

SpecRetry == InitRetry /\ [][NextRetry]_vars

SpecRetryLive == SpecRetry /\ WF_vars(NextRetry)

----------------------------------------------------------------------------
(* Claims about the push side, checked under Spec                          *)

InFlight == {s \in DOMAIN push : push[s].pc # "idle"}

ChildPcs == {"likesDel", "likesIns", "commentsDel", "commentsIns"}

\* A pushChanges call is made in this step.
CallStep ==
    \/ OnConnectivity
    \/ \E p \in DOMAIN posts : ToggleLike(p) \/ AddComment(p)
    \/ AddPostResume(TRUE)

\* The remote row of a local record holds the record's current values.
LikeIsCurrent(i) ==
    /\ i \in DOMAIN rLikes
    /\ rLikes[i].post_id = likes[i].postId
    /\ rLikes[i].user_email = likes[i].userEmail
    /\ rLikes[i].deleted_at = likes[i].deletedAt

CommentIsCurrent(i) ==
    /\ i \in DOMAIN rComments
    /\ rComments[i].post_id = comments[i].postId
    /\ rComments[i].text = comments[i].text
    /\ rComments[i].deleted_at = comments[i].deletedAt

PostIsCurrent(i) ==
    /\ i \in DOMAIN rPosts
    /\ rPosts[i].text = posts[i].text
    /\ rPosts[i].timestamp = posts[i].timestamp
    /\ rPosts[i].deleted_at = posts[i].deletedAt

\* C1: in every reachable state, a local Post, Like or Comment with
\* isSynced = true has its current field values (deletedAt included) in the
\* remote store -- also when a Like is toggled while the batch that carries
\* it is awaiting its upsert.
C1_SyncedHasCurrentValues ==
    /\ \A i \in DOMAIN posts : posts[i].isSynced => PostIsCurrent(i)
    /\ \A i \in DOMAIN likes : likes[i].isSynced => LikeIsCurrent(i)
    /\ \A i \in DOMAIN comments : comments[i].isSynced => CommentIsCurrent(i)

\* The parent of child record c is a local post with isSynced = true.
ParentSynced(P, c) == c.postId \in DOMAIN P /\ P[c.postId].isSynced

\* C2: a Like or Comment enters a remote upsert only if, when its batch is
\* built, its postId is the id of a local Post with isSynced = true; and a
\* child becomes synced only if its parent is a synced local Post.
C2_ChildrenWaitForParent ==
    [][ /\ \A s \in DOMAIN push :
              (push'[s] # push[s] /\ push'[s].pc \in {"likesDel", "likesIns"})
                  => \A i \in push'[s].batch : ParentSynced(posts', likes'[i])
        /\ \A s \in DOMAIN push :
              (push'[s] # push[s] /\ push'[s].pc \in {"commentsDel", "commentsIns"})
                  => \A i \in push'[s].batch : ParentSynced(posts', comments'[i])
        /\ \A i \in DOMAIN likes :
              (~likes[i].isSynced /\ likes'[i].isSynced) => ParentSynced(posts, likes[i])
        /\ \A i \in DOMAIN comments :
              (~comments[i].isSynced /\ comments'[i].isSynced)
                  => ParentSynced(posts, comments[i])
      ]_vars

\* A likes batch is awaiting its upsert while an older unsynced like, whose
\* parent post is unsynced, was left out of it.
C2_Witness ==
    \E s \in DOMAIN push : \E j \in push[s].batch : \E i \in DOMAIN likes :
        /\ push[s].pc = "likesIns"
        /\ i < j
        /\ ~likes[i].isSynced
        /\ ~ParentSynced(posts, likes[i])

\* C3: a pushChanges call made less than PUSH_COOLDOWN ms after the call
\* that last started a cycle starts no cycle, makes no remote call and
\* leaves lastPushTime and isSyncing unchanged; lastPushTime only ever moves
\* to the timestamp of a call that came at least PUSH_COOLDOWN ms later.
C3_CooldownRejects ==
    [][ CallStep =>
          /\ (now - lastPushTime < PUSH_COOLDOWN)
                => UNCHANGED <<lastPushTime, isSyncing, push, rPosts, rLikes, rComments>>
          /\ (lastPushTime' # lastPushTime)
                => (lastPushTime' = now /\ now - lastPushTime >= PUSH_COOLDOWN)
      ]_vars

\* A call arrived TICK ms after the cycle that ran before it, was rejected
\* by the cooldown, and lastPushTime still is the first call's timestamp.
C3_Witness ==
    /\ lastCall = "cooldown"
    /\ now - lastPushTime = TICK
    /\ \E s \in DOMAIN push : push[s].exit = "done"

\* C4: at most one push cycle is in flight at any time, whichever handlers
\* the pushChanges calls come from.
C4_SingleFlight == Cardinality(InFlight) <= 1

\* A call was rejected because a cycle is in flight.
C4_Witness == lastCall = "busy" /\ InFlight # {}

\* C5: isSyncing is true exactly while a cycle is between its start and its
\* finally block: every way a cycle ends releases it and a rejected call
\* never clears it under a running cycle.
C5_FlagReleased == isSyncing <=> (InFlight # {})

\* A cycle was ended by an exception (the realm closed under it), and a
\* later call was rejected by the closed-store check.
C5_Witness ==
    /\ \E s \in DOMAIN push : push[s].exit = "thrown"
    /\ lastCall = "closed"
    /\ ~isSyncing

\* C9: for each (postId, userEmail) at most one local Like has
\* deletedAt = null, whatever the sequence of toggleLike calls (two taps
\* handled before myLike is refreshed included).
C9_OneActiveLike ==
    \A i, j \in DOMAIN likes :
        (/\ i # j
         /\ likes[i].postId = likes[j].postId
         /\ likes[i].userEmail = likes[j].userEmail
         /\ IsNull(likes[i].deletedAt))
            => ~IsNull(likes[j].deletedAt)

----------------------------------------------------------------------------
(* Claims about the pull side, checked under SpecPull                      *)

\* C6: across any sequence and interleaving of pullChanges calls,
\* SystemSettings.lastSyncTime never decreases.
C6_WatermarkMonotonic ==
    [][settings # <<>> => (settings' # <<>> /\ settings'[1] >= settings[1])]_vars

\* A call committed its watermark after another call had moved it under
\* its feet, at a later instant than the first commit.
C6_Witness ==
    /\ mark = PullEnded("committed", TRUE)
    /\ LastSync > Epoch

\* C7: a remote post newer than the watermark is inserted locally by some
\* later pull; as long as it is not local it must stay inside the range the
\* next pull selects (timestamp > lastSyncTime), the watermark never moving
\* back (C6).
C7_BacklogStaysFetchable ==
    \A i \in BacklogIds :
        i \in DOMAIN posts \/ rPosts[i].timestamp > LastSync

----------------------------------------------------------------------------
(* Claims about repeated pushes, checked under SpecIdem                    *)

\* The rows of remote table T written since the first cycle started.
PushedIn(T) == {i \in DOMAIN T : T[i].updated_at >= Epoch}

\* Every record pushed since the first cycle started is flagged synced.
PushedAreSynced ==
    /\ \A i \in PushedIn(rPosts) : posts[i].isSynced
    /\ \A i \in PushedIn(rLikes) : likes[i].isSynced
    /\ \A i \in PushedIn(rComments) : comments[i].isSynced

\* C8: with every upload and upsert succeeding and no local mutation in
\* between, a second push cycle run after the cooldown (and any later one)
\* leaves the remote tables as the first cycle left them, and every record
\* that was pushed has isSynced = true.
C8_SecondPushChangesNothing ==
    [][ /\ lastPushTime > Epoch => UNCHANGED <<rPosts, rLikes, rComments>>
        /\ PushedAreSynced'
      ]_vars

\* The second cycle has run to its end after a first cycle that uploaded a
\* post and pushed a child of it, while a record is still deferred.
C8_Witness ==
    /\ lastPushTime > Epoch
    /\ ~isSyncing
    /\ \E s \in DOMAIN push : push[s].exit = "done"
    /\ PushedIn(rPosts) # {}
    /\ PushedIn(rLikes) \cup PushedIn(rComments) # {}
    /\ Unsynced(posts) \cup Unsynced(likes) \cup Unsynced(comments) # {}

----------------------------------------------------------------------------
(* Claims about pruning, checked under SpecPrune                           *)

\* r is a tombstone whose deletion was pushed.
SyncedTombstone(r) == ~IsNull(r.deletedAt) /\ r.isSynced

\* The age in days, at this instant, of tombstone r.
Age(r) == now - Val(r.deletedAt)

\* The synced tombstones of table T that this step removes.
ReapedTombstones(T, T2) == {i \in DOMAIN T \ DOMAIN T2 : SyncedTombstone(T[i])}

\* C10 as stated: pruneData hard-deletes a record with deletedAt = t and
\* isSynced = true only if now - t >= 30 days, in each of its three steps
\* and for Posts, Likes and Comments alike.
C10_OnlyAfterRetention ==
    [][ /\ \A i \in ReapedTombstones(posts, posts') : Age(posts[i]) >= RETENTION_DAYS
        /\ \A i \in ReapedTombstones(likes, likes') : Age(likes[i]) >= RETENTION_DAYS
        /\ \A i \in ReapedTombstones(comments, comments') :
              Age(comments[i]) >= RETENTION_DAYS
      ]_vars

\* C10 amended: a synced tombstone is hard-deleted by pruneData only if it
\* is more than 30 days old, or it is a Like or Comment whose post is not
\* in the store when the orphan sweep runs; the size cap removes no
\* tombstone.
C10_OnlyAfterRetentionOrOrphaned ==
    [][ /\ \A i \in ReapedTombstones(posts, posts') : Age(posts[i]) > RETENTION_DAYS
        /\ \A i \in ReapedTombstones(likes, likes') :
              Age(likes[i]) > RETENTION_DAYS \/ likes[i].postId \notin DOMAIN posts'
        /\ \A i \in ReapedTombstones(comments, comments') :
              Age(comments[i]) > RETENTION_DAYS \/ comments[i].postId \notin DOMAIN posts'
      ]_vars

\* One pruneData call removed a synced tombstone past retention and, as an
\* orphan, a synced tombstone younger than the retention window, while a
\* synced tombstone exactly RETENTION_DAYS old stayed in the store.
C10_Witness ==
    /\ \E r \in mark : SyncedTombstone(r) /\ Age(r) > RETENTION_DAYS
    /\ \E r \in mark : /\ r.kind \in {"Like", "Comment"}
                       /\ SyncedTombstone(r)
                       /\ Age(r) < RETENTION_DAYS
    /\ \E i \in DOMAIN likes \cup DOMAIN comments :
          LET r == IF i \in DOMAIN likes THEN likes[i] ELSE comments[i]
          IN  SyncedTombstone(r) /\ Age(r) = RETENTION_DAYS

\* The local posts that count against MAX_POSTS.
ActivePosts == {i \in DOMAIN posts : IsNull(posts[i].deletedAt) /\ posts[i].isSynced}

\* C11: after pruneData returns, at most MAX_POSTS local posts have
\* deletedAt = null and isSynced = true, whatever the store held before.
C11_SizeCap == lastCall = "pruned" => Cardinality(ActivePosts) <= MAX_POSTS

\* pruneData's size cap removed a live post of a store over the limit and
\* left exactly MAX_POSTS active posts.
C11_Witness ==
    /\ lastCall = "pruned"
    /\ Cardinality(ActivePosts) = MAX_POSTS
    /\ \E r \in mark : r.kind = "Post" /\ IsNull(r.deletedAt)

\* C12: after pruneData returns, every local Like and Comment, synced or
\* not, tombstoned or not, has the postId of a Post still in the store,
\* children of posts removed by the same call included.
C12_NoOrphans ==
    lastCall = "pruned" =>
        /\ \A i \in DOMAIN likes : likes[i].postId \in DOMAIN posts
        /\ \A i \in DOMAIN comments : comments[i].postId \in DOMAIN posts

\* One pruneData call removed a post by the size cap together with an
\* unsynced child of it, while a child of a surviving post stayed.
C12_Witness ==
    /\ lastCall = "pruned"
    /\ \E r \in mark : r.kind = "Post" /\ IsNull(r.deletedAt)
    /\ \E r \in mark : r.kind = "Like" /\ ~r.isSynced
    /\ DOMAIN comments # {}

\* C13: pruneData never hard-deletes a record with isSynced = false.
C13_UnsyncedSurvive == \A r \in mark : r.isSynced

----------------------------------------------------------------------------
(* Claims about the retry executor, checked under SpecRetry(Live)          *)

RECURSIVE SumOf(_)
SumOf(q) == IF q = <<>> THEN 0 ELSE Head(q) + SumOf(Tail(q))

\* C14: executeWithBackoff sleeps baseDelay * 2^(k-1) ms before retry k
\* (2000, 4000, 8000); for an operation that fails exactly 3 times and then
\* succeeds it makes 4 attempts, sleeps 14000 ms in total and returns the
\* operation's result.
C14_BackoffSchedule ==
    /\ \A k \in 1..Len(retry.slept) : retry.slept[k] = baseDelay * 2^(k - 1)
    /\ Len(retry.slept) <= 3
    /\ SubSeq(<<2000, 4000, 8000>>, 1, Len(retry.slept)) = retry.slept
    /\ (retry.pc = "returned" /\ retry.fails = 3) =>
          /\ retry.calls = 4
          /\ SumOf(retry.slept) = 14000
          /\ now - retry.start >= 14000
          /\ ~IsNull(retry.result) /\ Val(retry.result) \in OperationValues

\* An operation failed three times, succeeded at the fourth attempt and
\* its value was returned.
C14_Witness ==
    /\ retry.pc = "returned"
    /\ retry.fails = 3
    /\ retry.calls = 4
    /\ retry.result = Some("b")
    /\ retry.slept = <<2000, 4000, 8000>>

\* C15: executeWithBackoff invokes the operation at most 4 times (1 attempt
\* plus maxRetries = 3 retries) and always terminates; if every attempt
\* throws it returns null, the error never reaching the caller.
C15_BoundedAndTotal ==
    /\ [](retry.calls <= maxRetries + 1)
    /\ [](retry.pc \in {"idle", "calling", "sleeping", "returned"})
    /\ []((retry.pc = "returned" /\ retry.fails = retry.calls)
            => (retry.calls = maxRetries + 1 /\ retry.result = Some("null")))
    /\ (retry.pc \in {"calling", "sleeping"}) ~> (retry.pc = "returned")

\* Every one of the four attempts threw and the call returned null.
C15_Witness ==
    /\ retry.pc = "returned"
    /\ retry.fails = 4
    /\ retry.calls = 4
    /\ retry.result = Some("null")

----------------------------------------------------------------------------
(* Claims about conflict resolution in the pull, checked under SpecMerge   *)

\* C16: when pullChanges meets a local unsynced Post whose text was changed
\* only locally and whose image_url was changed only remotely since the
\* last sync, the merged local record has the local text and the remote
\* image_url.
C16_DisjointEditsBothKept ==
    [][ (/\ ~posts[1].isSynced /\ posts'[1].isSynced
         /\ posts[1].text = "A" /\ posts[1].remoteUrl = Some(SyncedText)
         /\ rPosts[1].text = SyncedText /\ rPosts[1].image_url = Some("B"))
        => (posts'[1].text = "A" /\ posts'[1].remoteUrl = Some("B"))
      ]_vars

\* C17: when pullChanges meets a local unsynced record whose text was
\* changed on both sides, the text becomes the remote one if the remote
\* updated_at is newer than the local timestamp and stays the local one
\* otherwise; the record ends with isSynced = true either way.
C17_SameFieldLastWriteWins ==
    [][ /\ (/\ ~comments[1].isSynced /\ comments'[1] # comments[1]
            /\ comments[1].text = "A" /\ rComments[1].text = "B")
           => /\ comments'[1].isSynced
              /\ comments'[1].text = IF rComments[1].updated_at > comments[1].timestamp
                                     THEN "B" ELSE "A"
        /\ (/\ ~posts[1].isSynced /\ posts'[1] # posts[1]
            /\ posts[1].text = "A" /\ rPosts[1].text = "B")
           => /\ posts'[1].isSynced
              /\ posts'[1].text = IF rPosts[1].updated_at > posts[1].timestamp
                                  THEN "B" ELSE "A"
      ]_vars

----------------------------------------------------------------------------
(* Claims about media in the posts phase, checked under Spec               *)

\* C18: in the posts phase of pushChanges, a post whose media upload fails
\* gets no remoteUrl, no metadata upsert is sent for it and its isSynced
\* stays false in this cycle, and the remaining unsynced posts of the cycle
\* are still processed.
C18_FailedUploadSkipsPost ==
    /\ [](\A p \in DOMAIN posts :
            NeedsUpload(posts[p]) => (~posts[p].isSynced /\ p \notin DOMAIN rPosts))
    /\ [](\A s \in Slots :
            (push[s].pc = "postUpsert" /\ push[s].cur \in DOMAIN posts)
                => ~NeedsUpload(posts[push[s].cur]))
    /\ [][\A s \in Slots :
            (/\ push[s].pc = "media" /\ push'[s] # push[s] /\ ~realmClosed
             /\ NeedsUpload(posts'[push[s].cur]))
            => LET rest == push[s].todo \cap DOMAIN posts
               IN  rest # {} => /\ push'[s].cur = Min(rest)
                                /\ push'[s].pc \in {"media", "postUpsert"}
         ]_vars

\* The upload of a post failed in a cycle that is now upserting the next
\* unsynced post; the first post has no remoteUrl, no remote row and is
\* still unsynced.
C18_Witness ==
    \E s \in Slots : \E p \in DOMAIN posts :
        /\ push[s].pc = "postUpsert"
        /\ p < push[s].cur
        /\ NeedsUpload(posts[p])
        /\ p \in files
        /\ ~posts[p].isSynced
        /\ p \notin DOMAIN rPosts

----------------------------------------------------------------------------
(* Claims about a missing media file, checked under SpecMedia              *)

\* Nothing of post 2 or of the like on it has reached the remote store.
NothingSent ==
    /\ ~posts[2].isSynced
    /\ 2 \notin DOMAIN rPosts
    /\ ~likes[1].isSynced
    /\ 1 \notin DOMAIN rLikes

\* C19: while the file of unsynced post P is missing, a push cycle uploads
\* and upserts nothing for P, sends no likes row for the unsynced Like on P
\* and leaves both unsynced; once the file exists again, the next push
\* cycle that runs uploads P, marks it synced and, in that same cycle,
\* upserts the Like and marks it synced.
C19_DeferredUntilFileIsBack ==
    /\ [](~mark.restored => (NothingSent /\ IsNull(posts[2].remoteUrl)))
    /\ [](likes[1].isSynced => posts[2].isSynced)
    /\ [][(isSyncing /\ ~isSyncing' /\ mark.restored /\ lastPushTime > mark.stamp)
            => /\ ~IsNull(posts'[2].remoteUrl)
               /\ posts'[2].isSynced /\ 2 \in DOMAIN rPosts'
               /\ likes'[1].isSynced /\ 1 \in DOMAIN rLikes'
         ]_vars

\* A cycle ran to its end with the file missing and left everything
\* unsent; the file came back, and the next cycle has synced the post and
\* the like.
C19_Witness ==
    /\ mark = FileState(TRUE, Epoch)
    /\ lastPushTime > Epoch
    /\ ~isSyncing
    /\ posts[2].isSynced
    /\ likes[1].isSynced
    /\ rLikes[1].post_id = 2

----------------------------------------------------------------------------
(* Claims about error propagation, checked under Spec                      *)

\* C20: pushChanges never throws or rejects to its caller: a failed remote
\* call, or the realm being closed while a cycle is suspended at a remote
\* call, ends the cycle silently.
C20_NeverRejects == \A s \in Slots : push[s].exit # "thrown"

----------------------------------------------------------------------------
(* Claims about the like toggle, checked under SpecToggle                  *)

\* Like 1 is the only Like of (post 1, user u), active and not yet pushed.
ResurrectedRow ==
    /\ \A i \in DOMAIN likes :
          (likes[i].postId = 1 /\ likes[i].userEmail = "u") => i = 1
    /\ 1 \in DOMAIN likes
    /\ IsNull(likes[1].deletedAt)

\* C21: toggling an active, synced Like twice before any push leaves
\* exactly one local Like for that (postId, userEmail), with the same id,
\* deletedAt = null and isSynced = false; the next push sends exactly one
\* likes upsert for it, the remote row having deleted_at = null, and marks
\* it synced.
C21_ToggleTwiceResurrects ==
    /\ (events = 2 /\ lastPushTime = LastCycle)
          => (ResurrectedRow /\ ~likes[1].isSynced)
    /\ (events = 2 /\ lastCall = "started")
          => /\ ResurrectedRow
             /\ \A s \in Slots : push[s].pc # "likesDel"
             /\ \A s \in Slots : push[s].pc = "likesIns" => DOMAIN push[s].payload = {1}
             /\ ~isSyncing => (/\ likes[1].isSynced
                               /\ IsNull(rLikes[1].deleted_at))

----------------------------------------------------------------------------
(* Claims about tombstones, checked under SpecTomb                         *)

\* The record has a tombstone before the step and none after it.
Cleared(T, U, i) == ~IsNull(T[i].deletedAt) /\ IsNull(U[i].deletedAt)

\* The step is a toggleLike that takes the resurrect branch on like i.
ResurrectStep(i) ==
    /\ events' = events + 1
    /\ Rendered(likes[i].postId) = 0
    /\ FindDeletedLike(likes[i].postId) = i

----------------------------------------------------------------------------
(* Claims about one push cycle, checked under SpecCycle                    *)

\* The cycle of slot s is suspended at a likes or comments upsert.
ChildPhase(s) == push[s].pc \in {"likesDel", "likesIns", "commentsDel", "commentsIns"}

\* The parents of the rows of the batch that is being upserted.
SentParents(s) == {push[s].payload[i].post_id : i \in DOMAIN push[s].payload}

\* The posts that were synced when the cycle started.
SyncedAtStart == mark

\* C23 (as stated): for every Like or Comment upserted in a push cycle, the
\* parent Post already had isSynced = true when the cycle started.
C23_ParentSyncedAtCycleStart ==
    \A s \in Slots : ChildPhase(s) => SentParents(s) \subseteq SyncedAtStart

\* C23 (amended): for every Like or Comment upserted in a push cycle, the
\* parent Post has isSynced = true and its row is in the remote table when
\* the batch is sent: it was synced when the cycle started or the posts
\* phase of this cycle upserted and flagged it.
C23_ParentSyncedWhenChildrenSent ==
    \A s \in Slots : ChildPhase(s) =>
        \A p \in SentParents(s) : /\ p \in DOMAIN posts
                                  /\ posts[p].isSynced
                                  /\ p \in DOMAIN rPosts

\* A child is being upserted whose parent was flagged by this very cycle.
C23_Witness ==
    \E s \in Slots : /\ ChildPhase(s)
                     /\ SentParents(s) \ SyncedAtStart # {}

----------------------------------------------------------------------------
(* Claims about retrying, checked under SpecHealLive                       *)

\* The post needs no upload or its file is in the documents directory.
MediaAvailable(p) == ~NeedsUpload(posts[p]) \/ p \in files

\* Every post whose media is available is synced.
PostsSynced == \A p \in DOMAIN posts : MediaAvailable(p) => posts[p].isSynced

\* Every record of T whose parent Post exists locally is synced.
ChildrenSynced(T) == \A i \in DOMAIN T : T[i].postId \in DOMAIN posts => T[i].isSynced

\* Every record of T whose parent Post is synced or can be is synced.
ChildrenOfPushableSynced(T) ==
    \A i \in DOMAIN T :
        (T[i].postId \in DOMAIN posts /\ MediaAvailable(T[i].postId)) => T[i].isSynced

----------------------------------------------------------------------------
(* Claims about the entry points, checked under SpecEntry                  *)

\* C25: pushChanges, pullChanges and pruneData called with a closed store
\* return at once: no remote call, no store access (none that throws), no
\* change to lastPushTime or isSyncing.
C25_ClosedStoreShortCircuits ==
    [][realmClosed =>
          /\ lastCall' # "thrown"
          /\ UNCHANGED <<posts, likes, comments, settings, rPosts, rLikes, rComments,
                         push, pull, lastPushTime, isSyncing>>
      ]_vars

----------------------------------------------------------------------------
(* Claims about the phases of one cycle, checked under SpecCycle           *)

\* The step is the return of a failed to_delete upsert of the likes phase.
DeleteBatchFails(s) ==
    /\ push[s].pc = "likesDel"
    /\ push'[s] # push[s]
    /\ rLikes' = rLikes

\* C26: when the to_delete batch upsert of the likes phase fails, its
\* records keep isSynced = false, the to_insert batch of the same cycle is
\* not sent, and the cycle goes on to the comments phase.
C26_FailedDeleteAbortsLikes ==
    [][\A s \in Slots : DeleteBatchFails(s) =>
          /\ \A i \in push[s].batch : ~likes'[i].isSynced
          /\ push'[s].pc # "likesIns"
          /\ push'[s].pc \in {"commentsDel", "commentsIns", "idle"}
      ]_vars

\* The phase of a cycle suspended at pc: posts, likes, comments, ended.
Rank(pc) ==
    IF pc \in {"media", "postUpsert"} THEN 1
    ELSE IF pc \in {"likesDel", "likesIns"} THEN 2
    ELSE IF pc \in {"commentsDel", "commentsIns"} THEN 3
    ELSE 4

\* C27: within one push cycle every post upload and post upsert happens
\* before the first likes upsert, and every likes upsert before the first
\* comments upsert: a cycle never steps back to an earlier phase.
C27_PostsThenLikesThenComments ==
    [][\A s \in Slots :
          push[s].pc # "idle" => Rank(push'[s].pc) >= Rank(push[s].pc)]_vars

\* A cycle that flagged post 2 and a like is at its comments upsert.
C27_Witness ==
    \E s \in Slots :
        /\ Rank(push[s].pc) = 3
        /\ 2 \notin SyncedAtStart /\ posts[2].isSynced
        /\ \E i \in DOMAIN likes : likes[i].isSynced

----------------------------------------------------------------------------
(* Claims about the connectivity handler, checked under SpecConnect        *)

\* C28: on a connectivity event the handler runs the push and then the
\* pull: the pull's fetch does not start until the push cycle started by
\* the same event has finished.
C28_PullWaitsForPush ==
    [][(/\ BagCardinality(pull') > BagCardinality(pull)
        /\ lastCall' = "started")
          => ~isSyncing']_vars

----------------------------------------------------------------------------
(* Claims about the background task, checked under SpecTask                *)

\* C29: the background task runs push, pull and prune in that order, each
\* finished before the next starts, and the store it opened is closed when
\* the task ends, on every exit path, a phase that throws included.
C29_OrderedAndClosedOnEveryExit ==
    /\ [](task.pc = "idle" => task.open = 0)
    /\ [][/\ task'.pc = "push" => task.pc \in {"open", "push"}
          /\ task'.pc = "pull" => task.pc \in {"push", "pull"}
          /\ task'.pc = "prune" => task.pc \in {"pull", "prune"}]_vars

----------------------------------------------------------------------------
(* Claims about the watermark, checked under SpecPull                      *)

\* The step is the write of call c that commits the posts it fetched.
CommitsFetchedPosts(c) ==
    /\ c.pc \in {"pull", "lposts"}
    /\ c.fetched
    /\ DOMAIN c.rows # {}
    /\ CopiesIn(c, pull') < CopiesIn(c, pull)

\* C30: pullChanges moves lastSyncTime only in the local transaction that
\* commits the merge of the posts it fetched; a pull whose fetch failed or
\* that is interrupted before that commit leaves lastSyncTime as it was.
C30_WatermarkMovesWithPostsCommit ==
    [][LastSync' # LastSync => \E c \in Suspended : CommitsFetchedPosts(c)]_vars

----------------------------------------------------------------------------
(* Claims about the posts a pull inserts, checked under SpecConnect        *)

\* C31: a pullChanges call that ends leaves every local post as it was,
\* under the id it had; the posts it adds are rows it fetched, inserted with
\* isSynced = TRUE; and when it writes, every row it fetched has a local
\* post -- also when another call fetched the same rows and wrote first.
C31_PullInsertsOnlyAbsent ==
    [][\A c \in Suspended :
          (c.pc = "pull" /\ pull' = Finished(c)) =>
             /\ \A i \in DOMAIN posts : i \in DOMAIN posts' /\ posts'[i] = posts[i]
             /\ \A i \in DOMAIN posts' \ DOMAIN posts :
                    i \in DOMAIN c.rows /\ posts'[i].isSynced
             /\ mark'.exit = "committed" => DOMAIN c.rows \subseteq DOMAIN posts']_vars

\* A call has committed after another call moved the watermark under it,
\* and the post the device pushed meanwhile is among the remote rows.
C31_Witness ==
    /\ mark.exit = "committed"
    /\ mark.overtaken
    /\ \E i \in DOMAIN posts \cap DOMAIN rPosts :
          posts[i].timestamp > 0 /\ ~IsNull(posts[i].localUri)

----------------------------------------------------------------------------
(* Claims about last-write-wins in the pull, checked under SpecMerge       *)

\* existingPost.text / remoteUrl / timestamp assigned from the remote row
Overwritten(local, r) ==
    [local EXCEPT !.text = r.text, !.remoteUrl = r.image_url,
                  !.timestamp = r.timestamp]

\* C32: when the posts select of pullChanges has returned a row whose post
\* exists locally with isSynced = TRUE, the merge leaves the local post with
\* the remote text, image_url and timestamp if the row's updated_at is
\* strictly later than the local timestamp, and leaves it as it was
\* otherwise.
C32_SyncedPostLastWriteWins ==
    [][\A c \in Suspended :
          (/\ c.pc = "lposts"
           /\ pull' = Moved(c, Call("llikes", c.lastSync))
           /\ mark'.exit = "merged"
           /\ 1 \in DOMAIN c.rows
           /\ posts[1].isSynced)
          => posts'[1] = IF c.rows[1].updated_at > posts[1].timestamp
                         THEN Overwritten(posts[1], c.rows[1])
                         ELSE posts[1]]_vars

\* A synced post stamped at the very instant of the row's updated_at has
\* gone through the merge and kept its local text.
C32_Witness ==
    /\ mark.exit = "merged"
    /\ \E c \in Suspended : c.pc = "llikes"
    /\ posts[1].isSynced
    /\ posts[1].timestamp = rPosts[1].updated_at
    /\ posts[1].text = "A"
    /\ rPosts[1].text = "B"

\* A synced post older than the row has taken the row's values.
C32_WitnessOverwritten ==
    /\ mark.exit = "merged"
    /\ \E c \in Suspended : c.pc = "llikes"
    /\ posts[1].text = "B"
    /\ posts[1].timestamp = rPosts[1].timestamp

----------------------------------------------------------------------------
(* Claims about fieldLevelMerge, checked under SpecFields                  *)

\* The value the three-way rule gives a field: the remote one if only the
\* remote differs from the base, the local one if only the local differs,
\* the later write if both differ, the common one if neither does.
ThreeWay(l, r, b, remoteNewer) ==
    IF l # b /\ r # b THEN (IF remoteNewer THEN r ELSE l)
    ELSE IF r # b THEN r
    ELSE IF l # b THEN l
    ELSE b

\* C33: fieldLevelMerge(local, remote, base) returns, for text and for
\* image_url, the value of the three-way rule, the remote being the later
\* write iff its updated_at is strictly later than the local timestamp.
C33_FieldLevelMergeThreeWay ==
    ~IsNull(mark.merged) =>
        LET remoteNewer == mark.remote.updated_at > mark.local.timestamp
        IN  /\ Val(mark.merged).text =
                  ThreeWay(mark.local.text, mark.remote.text, mark.base.text,
                           remoteNewer)
            /\ Val(mark.merged).image_url =
                  ThreeWay(mark.local.image_url, mark.remote.image_url,
                           mark.base.image_url, remoteNewer)

\* The call has returned for a text changed on both sides at the same
\* instant and an image_url changed only remotely.
C33_Witness ==
    /\ ~IsNull(mark.merged)
    /\ mark.local.text = "A" /\ mark.remote.text = "B" /\ mark.base.text = SyncedText
    /\ mark.local.timestamp = mark.remote.updated_at
    /\ mark.local.image_url = mark.base.image_url
    /\ mark.remote.image_url # mark.base.image_url
    /\ Val(mark.merged).text = "A"
    /\ Val(mark.merged).image_url = mark.remote.image_url

----------------------------------------------------------------------------
(* Claims about write transactions, checked under SpecTxn                  *)

\* C34: a write transaction is open only while the function that opened it
\* is running: no function is suspended at an await (of a file call, a
\* remote call or a retry sleep) inside its own realm.write, and a function
\* that has ended has committed.
C34_NoAwaitInsideWrite ==
    mark.txn # "none" => mark.st[mark.txn] = "running"

\* pushChanges sleeps between two attempts of its posts upsert, having
\* committed the remoteUrl of the upload, while pullChanges awaits its
\* select, having committed SystemSettings, and pruneData has committed.
C34_Witness ==
    /\ mark.st["push"] = "suspended" /\ mark.asleep["push"] /\ mark.pos["push"] = 7
    /\ mark.st["pull"] = "suspended" /\ mark.pos["pull"] = 4
    /\ mark.st["prune"] = "done"
    /\ mark.txn = "none"

----------------------------------------------------------------------------
(* Claims about the size cap, checked under SpecPrune                      *)

\* The active synced posts of posts table P.
ActiveSynced(P) == {i \in DOMAIN P : IsNull(P[i].deletedAt) /\ P[i].isSynced}

\* C35: a pruneData call on a store with n > MAX_POSTS active synced posts
\* removes exactly n - MAX_POSTS of them, none of them newer than an active
\* synced post that stays; on a store within the limit it removes none.
\* Unsynced posts stay, and a tombstoned post goes only by the retention
\* rule of the first step.
C35_SizeCapDropsOldest ==
    [][lastCall' = "pruned" =>
          LET A == ActiveSynced(posts)
              n == Cardinality(A)
              gone == DOMAIN posts \ DOMAIN posts'
          IN  /\ Cardinality(A \cap gone) = IF n > MAX_POSTS THEN n - MAX_POSTS ELSE 0
              /\ \A d \in A \cap gone, k \in A \ gone :
                     posts[d].timestamp <= posts[k].timestamp
              /\ \A i \in gone \ A :
                     posts[i].isSynced /\ Expired(posts[i].deletedAt, now)
              /\ \A i \in DOMAIN posts' : posts'[i] = posts[i]]_vars

\* The cap has removed a live post of a store over the limit, and the
\* oldest post of the store, not yet pushed, is still there.
C35_Witness ==
    /\ lastCall = "pruned"
    /\ \E r \in mark : r.kind = "Post" /\ IsNull(r.deletedAt) /\ r.isSynced
    /\ 1 \in DOMAIN posts
    /\ ~posts[1].isSynced
    /\ IsNull(posts[1].deletedAt)
    /\ Cardinality(ActiveSynced(posts)) = MAX_POSTS

----------------------------------------------------------------------------
(* Claims about the media of a post, checked under SpecHeal                *)

\* Cycle s awaits a call of kind pc for post p.
AwaitsFor(s, pc, p) == push[s].pc = pc /\ push[s].cur = p

\* C36: an upload is in flight only for a post whose remoteUrl is unset;
\* remoteUrl changes only in the step in which the upload of that post
\* returns with success, the file being there; and the payload of a posts
\* upsert in flight carries the remoteUrl the store holds, so a cycle that
\* meets an unsynced post with a remoteUrl goes to its upsert at once.
C36_UploadOnceThenUpsert ==
    [][/\ \A s \in Slots, p \in DOMAIN posts' :
             /\ AwaitsFor(s, "media", p)' => IsNull(posts'[p].remoteUrl)
             /\ AwaitsFor(s, "postUpsert", p)' =>
                    LET row == push'[s].payload[p]
                        video == posts'[p].mediaType = "video"
                    IN  /\ (IF video THEN row.video_url ELSE row.image_url)
                              = posts'[p].remoteUrl
                        /\ IsNull(IF video THEN row.image_url ELSE row.video_url)
       /\ \A p \in DOMAIN posts \cap DOMAIN posts' :
             posts'[p].remoteUrl # posts[p].remoteUrl =>
                /\ IsNull(posts[p].remoteUrl)
                /\ p \in files
                /\ \E s \in Slots : AwaitsFor(s, "media", p)
                                      /\ AwaitsFor(s, "postUpsert", p)']_vars

\* The upload of post 2 succeeded in the cycle that started at Epoch and its
\* upsert failed; a later cycle awaits the upsert of post 2 with the stored
\* remoteUrl in the payload.
C36_Witness ==
    /\ lastPushTime > Epoch
    /\ ~posts[2].isSynced
    /\ 2 \notin DOMAIN rPosts
    /\ \E s \in Slots : /\ AwaitsFor(s, "postUpsert", 2)
                          /\ push[s].payload[2].image_url = Some(2)

----------------------------------------------------------------------------
(* Claims about rejected pushes, checked under SpecToggleLive              *)

\* C37: whenever a pushChanges call has been refused (a cycle in flight, or
\* the cooldown) and an unpushed Like is in the store, the store eventually
\* holds no unpushed Like, whether or not the user taps again.
C37_RejectedMutationStillPushed ==
    [](((lastCall \in {"busy", "cooldown"}) /\ Unsynced(likes) # {})
          => <>(Unsynced(likes) = {}))

----------------------------------------------------------------------------
(* Claims about SystemSettings, checked under SpecPull                     *)

\* C38: the store holds at most one SystemSettings object.
C38_AtMostOneSettings == Len(settings) <= 1

\* Two pullChanges calls are suspended together on a store that had no
\* SystemSettings object when the first of them started.
C38_Witness ==
    /\ Len(settings) = 1
    /\ BagCardinality(pull) = 2
    /\ \A c \in Suspended : c.pc = "pull" /\ c.lastSync = 0
    /\ mark.exit = "none"

----------------------------------------------------------------------------
(* Claims about remote tombstones in the pull, checked under SpecTomb      *)

\* The records of local table T2 that were not in T, whose row in remote
\* table R carries a deleted_at.
NewFromTombstone(T, T2, R) ==
    {i \in (DOMAIN T2 \ DOMAIN T) \cap DOMAIN R : ~IsNull(R[i].deleted_at)}

\* C39: a record that enters the local store while its remote row has
\* deleted_at set enters it with deletedAt set.
C39_RemoteTombstoneNeverActive ==
    [][/\ \A i \in NewFromTombstone(posts, posts', rPosts) :
             ~IsNull(posts'[i].deletedAt)
       /\ \A i \in NewFromTombstone(likes, likes', rLikes) :
             ~IsNull(likes'[i].deletedAt)
       /\ \A i \in NewFromTombstone(comments, comments', rComments) :
             ~IsNull(comments'[i].deletedAt)]_vars

----------------------------------------------------------------------------
(* Claims about posts that arrive late, checked under SpecLateLive         *)

\* Remote post i is not in the local store; it reached the remote store
\* after a pull set the watermark, and was authored before that watermark.
ArrivedLate(i) ==
    /\ i \in DOMAIN rPosts
    /\ i \notin DOMAIN posts
    /\ LastSync > 0
    /\ rPosts[i].updated_at > LastSync
    /\ rPosts[i].timestamp < LastSync

\* C40: a remote post that arrived after a pull set the watermark and was
\* authored before it is eventually in the local store, pulls being called
\* for ever.
C40_LatePostStillPulled ==
    \A i \in LateIds : [](ArrivedLate(i) => <>(i \in DOMAIN posts))

====
